---- MODULE Spec2Model ----
(***************************************************************************)
(* A model of interfaces/adfsuite/amsworker.py: the AMSWorker process      *)
(* supervisor (start, stop, _call, _solve, ParseInput, the restart cache)  *)
(* and the AMSWorkerPool that fans tasks out to several workers.           *)
(*                                                                         *)
(* The specifications share the worker operations:                         *)
(*   Spec        one AMSWorker with the restart cache enabled, driven by   *)
(*               one calling thread; results are released (their weakref   *)
(*               finalizers run) at any moment.                            *)
(*   SpecPool    an AMSWorkerPool: one dispatcher thread per worker         *)
(*               draining the shared queue of one evaluate() call.         *)
(*   SpecOverlap two threads calling into the same AMSWorker.              *)
(*   SpecLife    _start_subprocess, _startup_watcher and stop() step by    *)
(*               step, with the process and both FIFOs.                    *)
(*   SpecPoolFair  SpecPool with every thread scheduled.                   *)
(*   SpecPoolInit  AMSWorkerPool.__init__ spawning its workers in threads. *)
(*   SpecCall    one _call: the request frame, then the reply frames read  *)
(*               from a byte stream that may be cut short.                 *)
(*   SpecFlatten _flatten_arrays followed by _unflatten_arrays on a        *)
(*               nested mapping.                                           *)
(*   SpecSolve   the requests of successive _solve calls on one worker,    *)
(*               with their arguments, between releases and restarts.      *)
(***************************************************************************)
EXTENDS Integers, Sequences, FiniteSets, TLC

VARIABLES
    workers,    \* AMSWorkerPool.workers / the AMSWorker: one record per worker
    pc,         \* per thread: where it is inside the public operation it runs
    tw,         \* per thread: the worker it calls into
    op,         \* per thread: the operation in progress (name, task, result id,
                \* the names pending deletion when it began)
    todo,       \* per thread: list(self.restart_cache_deleted) still to delete
    exc,        \* per thread: the exception an except-handler is working on
    ret,        \* per thread: what the finished operation returned or raised
    recovered,  \* per thread: the operation in progress has called stop()
    held,       \* AMSWorkerResults the caller still holds (finalizer pending)
    nops,       \* public operations begun so far
    ncrash,     \* spontaneous deaths of an engine process so far
    items,      \* AMSWorkerPool.evaluate: the items argument
    results,    \* AMSWorkerPool.evaluate: the results list
    q,          \* AMSWorkerPool.evaluate: the queue.Queue
    mpc,        \* AMSWorkerPool.evaluate: position of the calling thread
    mi,         \* AMSWorkerPool.evaluate: loop index of the calling thread
    slots,      \* AMSWorkerPool.workers: per index "None" or "AMSWorker"
    spc,        \* _start_subprocess / stop(): position of the calling thread
    wpc,        \* _startup_watcher: position of the watcher thread
    stop_watcher, \* self._stop_watcher: the Event is set
    child,      \* the process of self.proc: reaped or not, lines of output
    fifo,       \* call_pipe and reply_pipe: who has which end open
    loc,        \* locals of the running _start_subprocess / stop()
    lops,       \* starts and stops requested so far
    call,       \* _call: its arguments, locals, position and outcome
    io,         \* _call: what is on call_pipe and on reply_pipe
    fpc,        \* _flatten_arrays / _unflatten_arrays: which one runs next
    fx,         \* the mapping handed to _flatten_arrays
    fy,         \* what _flatten_arrays returned
    fz,         \* what _unflatten_arrays returned for it, or that it raised
    sol,        \* _solve: its arguments, position and the frames it has sent
    sw,         \* _solve: the AMSWorker it runs on
    senv        \* _solve: results the caller holds, the lattice the engine has

vars == <<workers, pc, tw, op, todo, exc, ret, recovered, held, nops, ncrash,
          items, results, q, mpc, mi, slots,
          spc, wpc, stop_watcher, child, fifo, loc, lops,
          call, io, fpc, fx, fy, fz, sol, sw, senv>>

threadvars == <<pc, op, todo, exc, ret, recovered>>
poolvars == <<items, results, q, mpc, mi, slots>>
lifevars == <<spc, wpc, stop_watcher, child, fifo, loc, lops>>
callvars == <<call, io>>
flatvars == <<fpc, fx, fy, fz>>
solvevars == <<sol, sw, senv>>

-----------------------------------------------------------------------------
(* Bounds of the model *)

NumWorkers == 2
NumNames == 2
MaxOps == 4
MaxCrashes == 1
MaxStatus == 4
MaxTasks == 3
MaxBatches == 1
MaxOverlapOps == 2
MaxLifeOps == 3
MaxOut == 1
LenBits == 3
MaxNegLen == 2
MaxFrames == 3
MaxKeys == 2
MaxSolves == 2

Workers == 1 .. NumWorkers
Threads == 1 .. NumWorkers
Names == 1 .. NumNames
Statuses == 0 .. MaxStatus

\* amspipeerror.py: the status that AMSPipeError.from_message turns into an
\* AMSPipeRuntimeError
RUNTIME_ERROR == 3

\* amspipeerror.py: the exception class built from a nonzero return status
from_message(status) ==
    IF status = RUNTIME_ERROR THEN "AMSPipeRuntimeError" ELSE "AMSPipeError"

-----------------------------------------------------------------------------
(* Settings -> request arguments *)

TaskValues == {"singlepoint", "geometryoptimization", "moleculardynamics"}

\* str.lower() on the spellings of the task that occur
Lower(task) ==
    CASE task = "SinglePoint" -> "singlepoint"
      [] task = "GeometryOptimization" -> "geometryoptimization"
      [] OTHER -> task

\* _settings_to_args: the settings are accepted (no NotImplementedError)
SettingsSupported(task) ==
    Lower(task) \in {"singlepoint", "geometryoptimization"}

\* _solve: Optimize for a geometry optimization, Solve otherwise
PrimaryMethod(task) ==
    IF task = "geometryoptimization" THEN "Optimize" ELSE "Solve"

-----------------------------------------------------------------------------
(* One worker: AMSWorker's attributes plus the external process *)

Frame(m, title) == [m |-> m, title |-> title]

\* AMSWorker.__init__ up to the call of _start_subprocess
NewWorker(cache) ==
    [ proc |-> "None",                \* self.proc
      engine |-> "none",              \* the external process: none, up, dead
      hello |-> FALSE,                \* Hello was answered with status 0
      callpipe |-> "None",            \* self.callpipe
      replypipe |-> "None",           \* self.replypipe
      restart_cache |-> {},           \* self.restart_cache
      restart_cache_deleted |-> {},   \* self.restart_cache_deleted
      server |-> {},                  \* titles the engine process keeps results of
      use_restart_cache |-> cache,
      epoch |-> 0,                    \* how many times stop() has run
      stopped |-> FALSE,              \* the caller has called stop()
      wire |-> <<>> ]                 \* frames handed to callpipe in this operation

\* _check_process: the handle is set and poll() reports no exit status
_check_process(ws) ==
    ws.proc # "None" /\ ws.engine = "up"

\* A stop() that reads ams.out and ams.err back outside its
\* "if self.proc is not None" block
StopOutputReadAlways(ws) == "captured"

\* stop(): what it returns for (stdout, stderr)
StopOutput(ws) ==
    IF ws.proc # "None" THEN "captured" ELSE "None"

\* A stop() that clears the retained set and forgets the pending one
stopKeepsPending(ws) ==
    [ ws EXCEPT
        !.proc = "None",
        !.engine = IF ws.proc # "None" THEN "none" ELSE @,
        !.hello = IF ws.proc # "None" THEN FALSE ELSE @,
        !.server = IF ws.proc # "None" THEN {} ELSE @,
        !.wire = IF _check_process(ws) /\ ws.callpipe = "open"
                 THEN Append(@, Frame("Exit", 0)) ELSE @,
        !.restart_cache = {},
        !.epoch = @ + 1,
        !.callpipe = "None",
        !.replypipe = IF @ = "None" THEN "None" ELSE "closed" ]

\* stop(): the worker afterwards. A live process gets one Exit frame and is
\* waited for or killed; the caches are cleared; the pipes are closed.
stop(ws) ==
    [ ws EXCEPT
        !.proc = "None",
        !.engine = IF ws.proc # "None" THEN "none" ELSE @,
        !.hello = IF ws.proc # "None" THEN FALSE ELSE @,
        !.server = IF ws.proc # "None" THEN {} ELSE @,
        !.wire = IF _check_process(ws) /\ ws.callpipe = "open"
                 THEN Append(@, Frame("Exit", 0)) ELSE @,
        !.restart_cache = {},
        !.restart_cache_deleted = {},
        !.epoch = @ + 1,
        !.callpipe = "None",
        !.replypipe = IF @ = "None" THEN "None" ELSE "closed" ]

\* How a start of the external process can end
StartOutcomes == {"ready", "exited", "hello_io", "hello_status"}

\* _start_subprocess: launch, open both pipes, say Hello
Launched(ws) ==
    [ ws EXCEPT !.proc = "Popen", !.engine = "up", !.hello = FALSE,
                !.callpipe = "open", !.replypipe = "open", !.server = {} ]

\* _start_subprocess: the worker afterwards, by outcome
_start_subprocess(ws, outcome) ==
    CASE outcome = "ready" ->
            [ Launched(ws) EXCEPT !.hello = TRUE,
                                  !.wire = Append(@, Frame("Hello", 0)) ]
      [] outcome = "exited" ->
            \* the child exited before opening the pipes: the watcher steps
            \* in, _check_process fails, AMSWorkerError, stop()
            stop([ Launched(ws) EXCEPT !.engine = "dead" ])
      [] outcome = "hello_io" ->
            \* Hello could not be written or its reply not read: stop()
            stop([ Launched(ws) EXCEPT !.wire = Append(@, Frame("Hello", 0)) ])
      [] OTHER ->
            \* Hello answered with a nonzero status: an AMSPipeError, which
            \* the except AMSWorkerError clause does not catch
            [ Launched(ws) EXCEPT !.wire = Append(@, Frame("Hello", 0)) ]

\* _start_subprocess: the exception it raises, "" for none
StartRaises(outcome, status) ==
    CASE outcome = "ready" -> ""
      [] outcome \in {"exited", "hello_io"} -> "AMSWorkerError"
      [] OTHER -> from_message(status)

\* A worker as its constructor leaves it when the start succeeds
ReadyWorker(cache) == _start_subprocess(NewWorker(cache), "ready")

-----------------------------------------------------------------------------
(* Per-thread bookkeeping *)

NoOp == [kind |-> "none", name |-> 0, task |-> "", id |-> 0, slot |-> 0,
         del |-> 0, status |-> -1, pend |-> {}]
NoRet == [kind |-> "none", name |-> 0, err |-> "", out |-> "None", id |-> 0]
NoExc == [e |-> "", out |-> "None"]

\* AMSWorkerResults(name, molecule, results, error)
AMSWorkerResults(o, err, out) ==
    [kind |-> "result", name |-> o.name, err |-> err, out |-> out, id |-> o.id]

Raised(e, out) ==
    [kind |-> "raise", name |-> 0, err |-> e, out |-> out, id |-> 0]

\* A plain return value (ParseInput's json_input, stop()'s output pair)
Returned(out) ==
    [kind |-> "value", name |-> 0, err |-> "", out |-> out, id |-> 0]

W(t) == workers[tw[t]]

SetWorker(t, ws) == workers' = [workers EXCEPT ![tw[t]] = ws]

Goto(t, l) == pc' = [pc EXCEPT ![t] = l]

Finish(t, r) ==
    /\ pc' = [pc EXCEPT ![t] = "ret"]
    /\ ret' = [ret EXCEPT ![t] = r]

\* The locals of a finished operation go out of scope
Forget(t) ==
    /\ op' = [op EXCEPT ![t] = NoOp]
    /\ todo' = [todo EXCEPT ![t] = {}]
    /\ exc' = [exc EXCEPT ![t] = NoExc]
    /\ ret' = [ret EXCEPT ![t] = NoRet]
    /\ recovered' = [recovered EXCEPT ![t] = FALSE]
    /\ SetWorker(t, [W(t) EXCEPT !.wire = <<>>])

\* A _solve whose except AMSWorkerError clause also catches the protocol
\* errors, so that a computation failure resets the worker
SolveHandlerResetsOnAnyError(e) ==
    CASE e \in {"AMSPipeRuntimeError", "AMSWorkerError"} -> "recover"
      [] OTHER -> "propagate"

\* _solve: which except clause takes an exception raised in its try block
SolveHandler(e) ==
    CASE e = "AMSPipeRuntimeError" -> "fail"
      [] e = "AMSWorkerError" -> "recover"
      [] OTHER -> "propagate"

\* ParseInput: which except clause takes an exception raised in its try block
ParseHandler(e) ==
    IF e = "AMSWorkerError" THEN "recover" ELSE "propagate"

Handler(t, e) ==
    IF op[t].kind = "parse" THEN ParseHandler(e) ELSE SolveHandler(e)

\* An exception e raised inside the try block of the operation of thread t
Throw(t, e) ==
    CASE Handler(t, e) = "fail" ->
            /\ Finish(t, AMSWorkerResults(op[t], e, "None"))
            /\ exc' = exc
      [] Handler(t, e) = "recover" ->
            /\ Goto(t, "recover")
            /\ exc' = [exc EXCEPT ![t] = [e |-> e, out |-> "None"]]
            /\ ret' = ret
      [] OTHER ->
            /\ Finish(t, Raised(e, "None"))
            /\ exc' = exc

-----------------------------------------------------------------------------
(* _call *)

\* _call: methods whose name starts with "Set" return before the flush
SetMethods == {"SetSystem", "SetLattice"}

\* A _call that returns early for the Set methods only
AwaitsReplyAfterExit(m) == m \notin SetMethods

\* _call: a reply is read unless the method is a Set method or Exit
AwaitsReply(m) == m \notin SetMethods /\ m # "Exit"

\* _call, the write: "ok" or the exception it ends with. A Set frame stays in
\* the buffer of callpipe unless the buffer overflows; every other frame is
\* flushed, which fails with BrokenPipeError once the process is gone.
WriteOutcomes(ws, m) ==
    IF ws.callpipe = "None" THEN {"AttributeError"}
    ELSE IF ws.engine = "up" THEN {"ok"}
    ELSE IF m \in SetMethods THEN {"ok", "AMSWorkerError"}
    ELSE {"AMSWorkerError"}

Written(ws, m, title) == [ws EXCEPT !.wire = Append(@, Frame(m, title))]

\* _call, the write, as a step of thread t that goes on at label next
CallWrite(t, m, title, next) ==
    \E o \in WriteOutcomes(W(t), m) :
        IF o = "ok"
        THEN /\ SetWorker(t, Written(W(t), m, title))
             /\ Goto(t, next)
             /\ UNCHANGED <<exc, ret>>
        ELSE /\ Throw(t, o)
             /\ UNCHANGED workers

\* _call, the read loop, when it does not end with a terminal message:
\* the exception raised, given what the reply pipe delivers
ReadFailure(ws, garbage) ==
    IF ws.replypipe # "open" THEN "ValueError"
    ELSE IF ws.engine # "up" \/ garbage THEN "AMSWorkerError"
    ELSE ""

-----------------------------------------------------------------------------
(* The restart cache *)

\* A duplicate-name check that looks at the wrong one of the two sets
DuplicateNameInDeleted(ws, name) ==
    ws.use_restart_cache /\ name \in ws.restart_cache_deleted

\* _solve: the name is already associated with results from the restart cache
DuplicateName(ws, name) ==
    ws.use_restart_cache /\ name \in ws.restart_cache

\* _delete_from_restart_cache
_delete_from_restart_cache(ws, name) ==
    IF name \in ws.restart_cache
    THEN [ws EXCEPT !.restart_cache = @ \ {name},
                    !.restart_cache_deleted = @ \cup {name}]
    ELSE ws

\* A _prune_restart_cache that walks the retained set instead
PruneListOfRetained(ws) == ws.restart_cache

\* _prune_restart_cache: list(self.restart_cache_deleted), the names it will
\* send a DeleteResults for
PruneList(ws) == ws.restart_cache_deleted

\* A _prune_restart_cache without its final clear()
PruneClearMissing(ws) == ws

\* _prune_restart_cache, after the loop: self.restart_cache_deleted.clear()
PruneClear(ws) == [ws EXCEPT !.restart_cache_deleted = {}]

\* The engine process answers DeleteResults with status 0
ServerDeleted(ws, name) == [ws EXCEPT !.server = @ \ {name}]

\* _solve after a successful primary call: self.restart_cache.add(name);
\* the engine keeps the results when keepResults was requested
SolveSucceeded(ws, name) ==
    IF ws.use_restart_cache
    THEN [ws EXCEPT !.restart_cache = @ \cup {name}, !.server = @ \cup {name}]
    ELSE ws

-----------------------------------------------------------------------------
(* AMSWorker.evaluate / _solve, step by step *)

\* evaluate up to the try block of _solve, for the operation o
BeginSolve(t, o) ==
    /\ op' = [op EXCEPT ![t] = [o EXCEPT !.pend = W(t).restart_cache_deleted]]
    /\ recovered' = [recovered EXCEPT ![t] = FALSE]
    /\ exc' = [exc EXCEPT ![t] = NoExc]
    /\ IF ~SettingsSupported(o.task)
       THEN /\ Finish(t, Raised("NotImplementedError", "None"))
            /\ UNCHANGED <<workers, todo>>
       ELSE IF DuplicateName(W(t), o.name)
       THEN /\ Finish(t, Raised("JobError", "None"))
            /\ UNCHANGED <<workers, todo>>
       ELSE /\ Goto(t, "prune")
            /\ todo' = [todo EXCEPT ![t] = PruneList(W(t))]
            /\ SetWorker(t, [W(t) EXCEPT !.wire = <<>>])
            /\ ret' = [ret EXCEPT ![t] = NoRet]

\* _prune_restart_cache: write the next DeleteResults, or clear and go on
PruneStep(t) ==
    /\ pc[t] = "prune"
    /\ IF todo[t] = {}
       THEN /\ SetWorker(t, PruneClear(W(t)))
            /\ Goto(t, "setsys")
            /\ UNCHANGED <<op, exc, ret>>
       ELSE \E n \in todo[t] :
            /\ op' = [op EXCEPT ![t].del = n]
            /\ CallWrite(t, "DeleteResults", n, "prune_rd")
    /\ UNCHANGED <<tw, todo, recovered, held, nops, ncrash>>

\* _prune_restart_cache: the reply to DeleteResults
PruneRead(t) ==
    /\ pc[t] = "prune_rd"
    /\ \/ \E g \in BOOLEAN :
            /\ ReadFailure(W(t), g) # ""
            /\ Throw(t, ReadFailure(W(t), g))
            /\ UNCHANGED <<workers, todo, op>>
       \/ /\ ReadFailure(W(t), FALSE) = ""
          /\ \E s \in Statuses :
                /\ op' = [op EXCEPT ![t].status = s]
                /\ IF s = 0
                   THEN /\ SetWorker(t, ServerDeleted(W(t), op[t].del))
                        /\ todo' = [todo EXCEPT ![t] = @ \ {op[t].del}]
                        /\ Goto(t, "prune")
                        /\ UNCHANGED <<exc, ret>>
                   ELSE /\ Throw(t, from_message(s))
                        /\ UNCHANGED <<workers, todo>>
    /\ UNCHANGED <<tw, recovered, held, nops, ncrash>>

\* _solve: self._call("SetSystem", chemicalSystem)
SetSystem(t) ==
    /\ pc[t] = "setsys"
    /\ CallWrite(t, "SetSystem", 0, "setlat")
    /\ UNCHANGED <<tw, op, todo, recovered, held, nops, ncrash>>

\* _solve: self._call("SetLattice", ...)
SetLattice(t) ==
    /\ pc[t] = "setlat"
    /\ CallWrite(t, "SetLattice", 0, "solve")
    /\ UNCHANGED <<tw, op, todo, recovered, held, nops, ncrash>>

\* _solve: the request of the primary call, Solve or Optimize
SolveWrite(t) ==
    /\ pc[t] = "solve"
    /\ CallWrite(t, PrimaryMethod(op[t].task), op[t].name, "solve_rd")
    /\ UNCHANGED <<tw, op, todo, recovered, held, nops, ncrash>>

\* _solve: the reply of the primary call and the construction of the result
SolveRead(t) ==
    /\ pc[t] = "solve_rd"
    /\ \/ \E g \in BOOLEAN :
            /\ ReadFailure(W(t), g) # ""
            /\ Throw(t, ReadFailure(W(t), g))
            /\ UNCHANGED <<workers, held, op>>
       \/ /\ ReadFailure(W(t), FALSE) = ""
          /\ \E s \in Statuses :
                /\ op' = [op EXCEPT ![t].status = s]
                /\ IF s = 0
                   THEN /\ SetWorker(t, SolveSucceeded(W(t), op[t].name))
                        /\ held' = IF W(t).use_restart_cache
                                   THEN held \cup {[id |-> op[t].id,
                                                    name |-> op[t].name,
                                                    w |-> tw[t],
                                                    epoch |-> W(t).epoch]}
                                   ELSE held
                        /\ Finish(t, AMSWorkerResults(op[t], "", "None"))
                        /\ exc' = exc
                   ELSE /\ Throw(t, from_message(s))
                        /\ UNCHANGED <<workers, held>>
    /\ UNCHANGED <<tw, todo, recovered, nops, ncrash>>

\* except AMSWorkerError: exc.stdout, exc.stderr = self.stop()
Recover(t) ==
    /\ pc[t] = "recover"
    /\ exc' = [exc EXCEPT ![t].out = StopOutput(W(t))]
    /\ SetWorker(t, stop(W(t)))
    /\ recovered' = [recovered EXCEPT ![t] = TRUE]
    /\ Goto(t, "restart")
    /\ UNCHANGED <<tw, op, todo, ret, held, nops, ncrash>>

\* except AMSWorkerError: self._start_subprocess(), then return the failed
\* result (_solve) or re-raise (ParseInput)
Restart(t) ==
    /\ pc[t] = "restart"
    /\ \E o \in StartOutcomes, s \in Statuses \ {0} :
        /\ SetWorker(t, _start_subprocess(W(t), o))
        /\ IF StartRaises(o, s) # ""
           THEN Finish(t, Raised(StartRaises(o, s),
                          IF StartRaises(o, s) = "AMSWorkerError"
                          THEN "captured" ELSE "None"))
           ELSE IF op[t].kind = "parse"
           THEN Finish(t, Raised(exc[t].e, exc[t].out))
           ELSE Finish(t, AMSWorkerResults(op[t], exc[t].e, exc[t].out))
    /\ UNCHANGED <<tw, op, todo, exc, recovered, held, nops, ncrash>>

-----------------------------------------------------------------------------
(* ParseInput *)

ParseWrite(t) ==
    /\ pc[t] = "parse"
    /\ CallWrite(t, "ParseInput", 0, "parse_rd")
    /\ UNCHANGED <<tw, op, todo, recovered, held, nops, ncrash>>

ParseRead(t) ==
    /\ pc[t] = "parse_rd"
    /\ \/ \E g \in BOOLEAN :
            /\ ReadFailure(W(t), g) # ""
            /\ Throw(t, ReadFailure(W(t), g))
            /\ op' = op
       \/ /\ ReadFailure(W(t), FALSE) = ""
          /\ \E s \in Statuses :
                /\ op' = [op EXCEPT ![t].status = s]
                /\ IF s = 0
                   THEN Finish(t, Returned("None")) /\ exc' = exc
                   ELSE Throw(t, from_message(s))
    /\ UNCHANGED <<workers, tw, todo, recovered, held, nops, ncrash>>

-----------------------------------------------------------------------------
(* The caller of one AMSWorker, and the environment *)

\* worker.evaluate(name, molecule, settings)
Evaluate(t) ==
    /\ pc[t] = "idle"
    /\ nops < MaxOps
    /\ nops' = nops + 1
    /\ \E n \in Names, task \in TaskValues :
        BeginSolve(t, [kind |-> "evaluate", name |-> n, task |-> task,
                       id |-> nops + 1, slot |-> 0, del |-> 0,
                       status |-> -1, pend |-> {}])
    /\ UNCHANGED <<tw, held, ncrash>>

\* worker.ParseInput(program_name, text_input)
ParseInput(t) ==
    /\ pc[t] = "idle"
    /\ nops < MaxOps
    /\ nops' = nops + 1
    /\ op' = [op EXCEPT ![t] = [NoOp EXCEPT !.kind = "parse",
                                           !.pend = W(t).restart_cache_deleted]]
    /\ recovered' = [recovered EXCEPT ![t] = FALSE]
    /\ exc' = [exc EXCEPT ![t] = NoExc]
    /\ ret' = [ret EXCEPT ![t] = NoRet]
    /\ SetWorker(t, [W(t) EXCEPT !.wire = <<>>])
    /\ Goto(t, "parse")
    /\ UNCHANGED <<tw, todo, held, ncrash>>

\* worker.stop()
Stop(t) ==
    /\ pc[t] = "idle"
    /\ nops < MaxOps
    /\ nops' = nops + 1
    /\ op' = [op EXCEPT ![t] = [NoOp EXCEPT !.kind = "stop"]]
    /\ recovered' = [recovered EXCEPT ![t] = FALSE]
    /\ SetWorker(t, stop([W(t) EXCEPT !.wire = <<>>, !.stopped = TRUE]))
    /\ Finish(t, Returned(StopOutput(W(t))))
    /\ UNCHANGED <<tw, todo, exc, held, ncrash>>

\* The operation is over: the caller has its return value or exception
Return(t) ==
    /\ pc[t] = "ret"
    /\ Goto(t, "idle")
    /\ Forget(t)
    /\ UNCHANGED <<tw, held, nops, ncrash>>

\* An AMSWorkerResults is deallocated: its weakref.finalize callback runs
Release(r) ==
    /\ r \in held
    /\ held' = held \ {r}
    /\ workers' = [workers EXCEPT ![r.w] = _delete_from_restart_cache(@, r.name)]
    /\ UNCHANGED <<tw, nops, ncrash, threadvars>>

\* The external process dies by itself or is killed from outside
Crash(w) ==
    /\ workers[w].engine = "up"
    /\ ncrash < MaxCrashes
    /\ ncrash' = ncrash + 1
    /\ workers' = [workers EXCEPT ![w].engine = "dead", ![w].server = {}]
    /\ UNCHANGED <<tw, held, nops, threadvars>>

-----------------------------------------------------------------------------
(* Spec: one AMSWorker(settings, use_restart_cache=True), one calling thread *)

InitThreads(active, worker) ==
    /\ pc = [t \in Threads |-> IF t \in active THEN "idle" ELSE "off"]
    /\ tw = [t \in Threads |-> worker[t]]
    /\ op = [t \in Threads |-> NoOp]
    /\ todo = [t \in Threads |-> {}]
    /\ exc = [t \in Threads |-> NoExc]
    /\ ret = [t \in Threads |-> NoRet]
    /\ recovered = [t \in Threads |-> FALSE]

\* call_pipe and reply_pipe as created by os.mkfifo: no end is open. Each
\* party is "closed", "waiting" (blocked in open()) or "open" on each pipe.
NoFifo ==
    [ call  |-> [main |-> "closed", child |-> "closed", watcher |-> "closed"],
      reply |-> [main |-> "closed", child |-> "closed", watcher |-> "closed"] ]

\* The process of a Popen that has just been created: not waited for yet,
\* nothing written to ams.out / ams.err, which exist in the worker directory
NewChild == [reaped |-> FALSE, out |-> 0, files |-> TRUE]

\* Before the first Popen
NoChild == [reaped |-> FALSE, out |-> 0, files |-> FALSE]

\* The locals of _start_subprocess / stop() when neither is running: who
\* called stop(), whether it found the process alive, its stdout (-1 for
\* None), its Exit calls and kills, the exception raised and the stdout
\* attached to it
NoLoc == [why |-> "", alive |-> FALSE, hadproc |-> FALSE, stdout |-> -1,
          exits |-> 0, kills |-> 0, err |-> "", errout |-> -1]

\* No _start_subprocess or stop() is modelled step by step
InitNoLife ==
    /\ spc = "off"
    /\ wpc = "none"
    /\ stop_watcher = FALSE
    /\ child = NoChild
    /\ fifo = NoFifo
    /\ loc = NoLoc
    /\ lops = 0

\* No _call is modelled step by step
NoCall == [method |-> "", plen |-> 0, cpc |-> "off", msglen |-> 0, pos |-> 1,
           results |-> <<>>, out |-> "", cause |-> ""]

NoIo == [sent |-> <<>>, flushed |-> FALSE, reader |-> FALSE, stream |-> <<>>,
         eof |-> FALSE]

InitNoCall ==
    /\ call = NoCall
    /\ io = NoIo

\* No _flatten_arrays / _unflatten_arrays is modelled
InitNoFlat ==
    /\ fpc = "off"
    /\ fx = <<>>
    /\ fy = <<>>
    /\ fz = [ok |-> TRUE, d |-> <<>>]

\* No _solve is modelled request by request
NoSolve == [pc |-> "off", name |-> 0, prev |-> 0, task |-> "", lattice |-> FALSE,
            geo |-> FALSE, frames |-> <<>>, raised |-> ""]

InitNoSolve ==
    /\ sol = NoSolve
    /\ sw = NewWorker(FALSE)
    /\ senv = [held |-> {}, lattice |-> "unset", n |-> 0]

InitNoPool ==
    /\ items = <<>>
    /\ results = <<>>
    /\ q = <<>>
    /\ mpc = "off"
    /\ mi = 0
    /\ slots = [w \in Workers |-> "None"]

Init ==
    /\ workers = [w \in Workers |-> IF w = 1 THEN ReadyWorker(TRUE)
                                     ELSE NewWorker(TRUE)]
    /\ InitThreads({1}, [t \in Threads |-> 1])
    /\ held = {}
    /\ nops = 0
    /\ ncrash = 0
    /\ InitNoPool
    /\ InitNoLife
    /\ InitNoCall
    /\ InitNoFlat
    /\ InitNoSolve

Next ==
    \/ \E t \in Threads : Evaluate(t) /\ UNCHANGED <<poolvars, lifevars, callvars, flatvars, solvevars>>
    \/ \E t \in Threads : ParseInput(t) /\ UNCHANGED <<poolvars, lifevars, callvars, flatvars, solvevars>>
    \/ \E t \in Threads : Stop(t) /\ UNCHANGED <<poolvars, lifevars, callvars, flatvars, solvevars>>
    \/ \E t \in Threads : Return(t) /\ UNCHANGED <<poolvars, lifevars, callvars, flatvars, solvevars>>
    \/ \E t \in Threads : PruneStep(t) /\ UNCHANGED <<poolvars, lifevars, callvars, flatvars, solvevars>>
    \/ \E t \in Threads : PruneRead(t) /\ UNCHANGED <<poolvars, lifevars, callvars, flatvars, solvevars>>
    \/ \E t \in Threads : SetSystem(t) /\ UNCHANGED <<poolvars, lifevars, callvars, flatvars, solvevars>>
    \/ \E t \in Threads : SetLattice(t) /\ UNCHANGED <<poolvars, lifevars, callvars, flatvars, solvevars>>
    \/ \E t \in Threads : SolveWrite(t) /\ UNCHANGED <<poolvars, lifevars, callvars, flatvars, solvevars>>
    \/ \E t \in Threads : SolveRead(t) /\ UNCHANGED <<poolvars, lifevars, callvars, flatvars, solvevars>>
    \/ \E t \in Threads : Recover(t) /\ UNCHANGED <<poolvars, lifevars, callvars, flatvars, solvevars>>
    \/ \E t \in Threads : Restart(t) /\ UNCHANGED <<poolvars, lifevars, callvars, flatvars, solvevars>>
    \/ \E t \in Threads : ParseWrite(t) /\ UNCHANGED <<poolvars, lifevars, callvars, flatvars, solvevars>>
    \/ \E t \in Threads : ParseRead(t) /\ UNCHANGED <<poolvars, lifevars, callvars, flatvars, solvevars>>
    \/ \E r \in held : Release(r) /\ UNCHANGED <<poolvars, lifevars, callvars, flatvars, solvevars>>
    \/ \E w \in Workers : Crash(w) /\ UNCHANGED <<poolvars, lifevars, callvars, flatvars, solvevars>>

Spec == Init /\ [][Next]_vars

-----------------------------------------------------------------------------
(* AMSWorkerPool.evaluate and _execute_queue *)

\* An item of the items argument: its name, the task of its settings, and
\* whether it is a 3-tuple at all
Item(name, task, len3) == [name |-> name, task |-> task, len3 |-> len3]

\* The name of the item at position i of a batch
ItemName(i) == ((i - 1) % NumNames) + 1

\* The settings of the items of a batch: supported or not
ItemTasks == {"singlepoint", "moleculardynamics"}

ItemLists ==
    UNION { { [i \in 1 .. n |-> Item(ItemName(i), f[i][1], f[i][2])] :
                f \in [1 .. n -> ItemTasks \X BOOLEAN] } : n \in 0 .. MaxTasks }

\* What goes through the queue: (i, name, mol, settings), or None
QueueItem(i, it) == [slot |-> i, name |-> it.name, task |-> it.task]
Sentinel == [slot |-> 0, name |-> 0, task |-> ""]

\* evaluate: results = [None]*len(items), a new queue, one thread per worker
PoolEvaluate(its) ==
    /\ mpc \in {"idle", "done"}
    /\ nops < MaxBatches
    /\ nops' = nops + 1
    /\ items' = its
    /\ results' = [i \in 1 .. Len(its) |-> NoRet]
    /\ q' = <<>>
    /\ pc' = [t \in Threads |-> "get"]
    /\ mpc' = "put"
    /\ mi' = 1
    /\ UNCHANGED <<workers, tw, op, todo, exc, ret, recovered, held, ncrash, slots>>

\* evaluate: the loop over items, one q.put or the JobError per step
PoolPut ==
    /\ mpc = "put"
    /\ IF mi > Len(items)
       THEN /\ mpc' = "sentinel"
            /\ mi' = 1
            /\ q' = q
       ELSE IF items[mi].len3
       THEN /\ q' = Append(q, QueueItem(mi, items[mi]))
            /\ mi' = mi + 1
            /\ mpc' = mpc
       ELSE /\ mpc' = "raised"
            /\ UNCHANGED <<q, mi>>
    /\ UNCHANGED <<workers, tw, held, nops, ncrash, items, results, slots, threadvars>>

\* evaluate: for t in threads: q.put(None)
PoolSentinel ==
    /\ mpc = "sentinel"
    /\ IF mi > NumWorkers
       THEN /\ mpc' = "join"
            /\ UNCHANGED <<q, mi>>
       ELSE /\ q' = Append(q, Sentinel)
            /\ mi' = mi + 1
            /\ mpc' = mpc
    /\ UNCHANGED <<workers, tw, held, nops, ncrash, items, results, slots, threadvars>>

\* An evaluate that returns its results without joining its threads
PoolJoinWithoutWaiting ==
    /\ mpc = "join"
    /\ mpc' = "done"
    /\ UNCHANGED <<workers, tw, held, nops, ncrash, items, results, q, mi, slots, threadvars>>

\* evaluate: for t in threads: t.join(), then return results
PoolJoin ==
    /\ mpc = "join"
    /\ \A t \in Threads : pc[t] \in {"exit", "dead"}
    /\ mpc' = "done"
    /\ UNCHANGED <<workers, tw, held, nops, ncrash, items, results, q, mi, slots, threadvars>>

\* _execute_queue: item = q.get(), then break or worker.evaluate(...)
DispatcherGet(t) ==
    /\ pc[t] = "get"
    /\ q # <<>>
    /\ q' = Tail(q)
    /\ IF Head(q) = Sentinel
       THEN /\ Goto(t, "exit")
            /\ UNCHANGED <<workers, op, todo, exc, ret, recovered>>
       ELSE BeginSolve(t, [kind |-> "evaluate", name |-> Head(q).name,
                           task |-> Head(q).task, id |-> Head(q).slot,
                           slot |-> Head(q).slot, del |-> 0, status |-> -1,
                           pend |-> {}])
    /\ UNCHANGED <<tw, held, nops, ncrash, items, results, mpc, mi, slots>>

\* _execute_queue: results[i] = <what evaluate returned>; an exception
\* leaves the loop through the finally clause and ends the thread
DispatcherStore(t) ==
    /\ pc[t] = "ret"
    /\ IF ret[t].kind = "raise"
       THEN /\ Goto(t, "dead")
            /\ results' = results
       ELSE /\ Goto(t, "get")
            /\ results' = [results EXCEPT ![op[t].slot] = ret[t]]
    /\ Forget(t)
    /\ UNCHANGED <<tw, held, nops, ncrash, items, q, mpc, mi, slots>>

\* AMSWorkerPool(settings, num_workers) after a successful construction:
\* every worker is an AMSWorker(..., use_restart_cache=False) that started
InitPool ==
    /\ workers = [w \in Workers |-> ReadyWorker(FALSE)]
    /\ InitThreads({}, [t \in Threads |-> t])
    /\ held = {}
    /\ nops = 0
    /\ ncrash = 0
    /\ items = <<>>
    /\ results = <<>>
    /\ q = <<>>
    /\ mpc = "idle"
    /\ mi = 0
    /\ slots = [w \in Workers |-> "AMSWorker"]
    /\ InitNoLife
    /\ InitNoCall
    /\ InitNoFlat
    /\ InitNoSolve

NextPool ==
    \/ \E its \in ItemLists : PoolEvaluate(its) /\ UNCHANGED <<lifevars, callvars, flatvars, solvevars>>
    \/ PoolPut /\ UNCHANGED <<lifevars, callvars, flatvars, solvevars>>
    \/ PoolSentinel /\ UNCHANGED <<lifevars, callvars, flatvars, solvevars>>
    \/ PoolJoin /\ UNCHANGED <<lifevars, callvars, flatvars, solvevars>>
    \/ \E t \in Threads : DispatcherGet(t) /\ UNCHANGED <<lifevars, callvars, flatvars, solvevars>>
    \/ \E t \in Threads : DispatcherStore(t) /\ UNCHANGED <<lifevars, callvars, flatvars, solvevars>>
    \/ \E t \in Threads : PruneStep(t) /\ UNCHANGED <<poolvars, lifevars, callvars, flatvars, solvevars>>
    \/ \E t \in Threads : SetSystem(t) /\ UNCHANGED <<poolvars, lifevars, callvars, flatvars, solvevars>>
    \/ \E t \in Threads : SetLattice(t) /\ UNCHANGED <<poolvars, lifevars, callvars, flatvars, solvevars>>
    \/ \E t \in Threads : SolveWrite(t) /\ UNCHANGED <<poolvars, lifevars, callvars, flatvars, solvevars>>
    \/ \E t \in Threads : SolveRead(t) /\ UNCHANGED <<poolvars, lifevars, callvars, flatvars, solvevars>>
    \/ \E t \in Threads : Recover(t) /\ UNCHANGED <<poolvars, lifevars, callvars, flatvars, solvevars>>
    \/ \E t \in Threads : Restart(t) /\ UNCHANGED <<poolvars, lifevars, callvars, flatvars, solvevars>>
    \/ \E w \in Workers : Crash(w) /\ UNCHANGED <<poolvars, lifevars, callvars, flatvars, solvevars>>

SpecPool == InitPool /\ [][NextPool]_vars

\* SpecPool with every thread scheduled: the caller of evaluate and the
\* dispatcher threads keep running as long as they have a step to take, and
\* a reply that is due arrives
SpecPoolFair == SpecPool /\ WF_vars(NextPool)

-----------------------------------------------------------------------------
(* SpecOverlap: two threads call into one AMSWorker at the same time, as the *)
(* dispatcher threads of two overlapping AMSWorkerPool.evaluate calls do    *)

InitOverlap ==
    /\ workers = [w \in Workers |-> IF w = 1 THEN ReadyWorker(FALSE)
                                     ELSE NewWorker(FALSE)]
    /\ InitThreads({1, 2}, [t \in Threads |-> 1])
    /\ held = {}
    /\ nops = 0
    /\ ncrash = 0
    /\ InitNoPool
    /\ InitNoLife
    /\ InitNoCall
    /\ InitNoFlat
    /\ InitNoSolve

NextOverlap ==
    \/ \E t \in Threads : nops < MaxOverlapOps /\ Evaluate(t) /\ UNCHANGED <<poolvars, lifevars, callvars, flatvars, solvevars>>
    \/ \E t \in Threads : nops < MaxOverlapOps /\ ParseInput(t) /\ UNCHANGED <<poolvars, lifevars, callvars, flatvars, solvevars>>
    \/ \E t \in Threads : nops < MaxOverlapOps /\ Stop(t) /\ UNCHANGED <<poolvars, lifevars, callvars, flatvars, solvevars>>
    \/ \E t \in Threads : Return(t) /\ UNCHANGED <<poolvars, lifevars, callvars, flatvars, solvevars>>
    \/ \E t \in Threads : PruneStep(t) /\ UNCHANGED <<poolvars, lifevars, callvars, flatvars, solvevars>>
    \/ \E t \in Threads : SetSystem(t) /\ UNCHANGED <<poolvars, lifevars, callvars, flatvars, solvevars>>
    \/ \E t \in Threads : SetLattice(t) /\ UNCHANGED <<poolvars, lifevars, callvars, flatvars, solvevars>>
    \/ \E t \in Threads : SolveWrite(t) /\ UNCHANGED <<poolvars, lifevars, callvars, flatvars, solvevars>>
    \/ \E t \in Threads : SolveRead(t) /\ UNCHANGED <<poolvars, lifevars, callvars, flatvars, solvevars>>
    \/ \E t \in Threads : Recover(t) /\ UNCHANGED <<poolvars, lifevars, callvars, flatvars, solvevars>>
    \/ \E t \in Threads : Restart(t) /\ UNCHANGED <<poolvars, lifevars, callvars, flatvars, solvevars>>
    \/ \E t \in Threads : ParseWrite(t) /\ UNCHANGED <<poolvars, lifevars, callvars, flatvars, solvevars>>
    \/ \E t \in Threads : ParseRead(t) /\ UNCHANGED <<poolvars, lifevars, callvars, flatvars, solvevars>>
    \/ \E w \in Workers : Crash(w) /\ UNCHANGED <<poolvars, lifevars, callvars, flatvars, solvevars>>

SpecOverlap == InitOverlap /\ [][NextOverlap]_vars

-----------------------------------------------------------------------------
(* SpecLife: _start_subprocess and stop() of one AMSWorker step by step,     *)
(* with the watcher thread and the external process running beside them     *)

nonlifevars == <<pc, tw, op, todo, exc, ret, recovered, held, nops, ncrash,
                 items, results, q, mpc, mi, slots, call, io, fpc, fx, fy, fz,
                 sol, sw, senv>>

\* The worker that is started and stopped
LW == workers[1]

SetLW(ws) == workers' = [workers EXCEPT ![1] = ws]

\* The parties at the other end of a pipe: the worker process and, standing
\* in for it, the watcher are at one end, the AMSWorker at the other
Partners(p) == IF p = "main" THEN {"child", "watcher"} ELSE {"main"}

\* open() of a FIFO by party p: it returns at once when a party is in open()
\* or holds the pipe open at the other end, and wakes those blocked there;
\* otherwise p blocks in open()
FifoOpen(f, n, p) ==
    IF \E o \in Partners(p) : f[n][o] # "closed"
    THEN [f EXCEPT ![n] = [x \in DOMAIN f[n] |->
                             IF x = p \/ (x \in Partners(p) /\ f[n][x] = "waiting")
                             THEN "open" ELSE f[n][x]]]
    ELSE [f EXCEPT ![n][p] = "waiting"]

\* The process is gone: the kernel closes its ends of both pipes
ChildGone(f) == [f EXCEPT !.call.child = "closed", !.reply.child = "closed"]

\* _call, callpipe.write + flush: somebody holds the read end of call_pipe
\* (BrokenPipeError otherwise)
CallPipeHasReader(f) == f.call.child = "open" \/ f.call.watcher = "open"

\* _read_exactly on replypipe: somebody holds the write end of reply_pipe
\* (end of file otherwise)
ReplyPipeHasWriter(f) == f.reply.child = "open" \/ f.reply.watcher = "open"

\* except AMSWorkerError in _start_subprocess: go on with self.stop()
StartFails ==
    /\ spc' = "st_begin"
    /\ loc' = [loc EXCEPT !.why = "start_failed"]

\* _start_subprocess: write the input, make the pipes, Popen
LStart ==
    /\ spc = "idle"
    /\ LW.proc = "None"
    /\ lops < MaxLifeOps
    /\ lops' = lops + 1
    /\ SetLW([LW EXCEPT !.proc = "Popen", !.engine = "up", !.hello = FALSE,
                        !.server = {}, !.wire = <<>>])
    /\ child' = NewChild
    /\ fifo' = NoFifo
    /\ loc' = [NoLoc EXCEPT !.why = "start"]
    /\ spc' = "watch"
    /\ UNCHANGED <<wpc, stop_watcher, nonlifevars>>

\* _start_subprocess: a new Event, a new Thread, self._watcher.start()
StartWatcher ==
    /\ spc = "watch"
    /\ stop_watcher' = FALSE
    /\ wpc' = "loop"
    /\ spc' = "open_call"
    /\ UNCHANGED <<workers, child, fifo, loc, lops, nonlifevars>>

\* _start_subprocess: open(call_pipe, 'wb') is entered
OpenCall ==
    /\ spc = "open_call"
    /\ fifo' = FifoOpen(fifo, "call", "main")
    /\ spc' = "open_call_w"
    /\ UNCHANGED <<workers, wpc, stop_watcher, child, loc, lops, nonlifevars>>

\* _start_subprocess: open(call_pipe, 'wb') returns, self.callpipe is set
OpenCallReturn ==
    /\ spc = "open_call_w"
    /\ fifo.call.main = "open"
    /\ SetLW([LW EXCEPT !.callpipe = "open"])
    /\ spc' = "open_reply"
    /\ UNCHANGED <<wpc, stop_watcher, child, fifo, loc, lops, nonlifevars>>

\* _start_subprocess: open(reply_pipe, 'rb') is entered
OpenReply ==
    /\ spc = "open_reply"
    /\ fifo' = FifoOpen(fifo, "reply", "main")
    /\ spc' = "open_reply_w"
    /\ UNCHANGED <<workers, wpc, stop_watcher, child, loc, lops, nonlifevars>>

\* _start_subprocess: open(reply_pipe, 'rb') returns, self.replypipe is set
OpenReplyReturn ==
    /\ spc = "open_reply_w"
    /\ fifo.reply.main = "open"
    /\ SetLW([LW EXCEPT !.replypipe = "open"])
    /\ spc' = "set_stop"
    /\ UNCHANGED <<wpc, stop_watcher, child, fifo, loc, lops, nonlifevars>>

\* _start_subprocess, finally: self._stop_watcher.set()
SetStop ==
    /\ spc = "set_stop"
    /\ stop_watcher' = TRUE
    /\ spc' = "join"
    /\ UNCHANGED <<workers, wpc, child, fifo, loc, lops, nonlifevars>>

\* A finally block that goes on without waiting for the watcher thread
JoinWithoutWaiting ==
    /\ spc = "join"
    /\ spc' = "check"
    /\ UNCHANGED <<workers, wpc, stop_watcher, child, fifo, loc, lops, nonlifevars>>

\* _start_subprocess, finally: self._watcher.join()
Join ==
    /\ spc = "join"
    /\ wpc = "done"
    /\ spc' = "check"
    /\ UNCHANGED <<workers, wpc, stop_watcher, child, fifo, loc, lops, nonlifevars>>

\* _start_subprocess: if not self._check_process(): raise AMSWorkerError
CheckStarted ==
    /\ spc = "check"
    /\ IF _check_process(LW)
       THEN /\ spc' = "hello_wr"
            /\ UNCHANGED <<child, loc>>
       ELSE /\ child' = [child EXCEPT !.reaped = TRUE]
            /\ StartFails
    /\ UNCHANGED <<workers, wpc, stop_watcher, fifo, lops, nonlifevars>>

\* _start_subprocess: self._call("Hello", ...), the write and the flush
HelloWrite ==
    /\ spc = "hello_wr"
    /\ IF CallPipeHasReader(fifo)
       THEN /\ SetLW(Written(LW, "Hello", 0))
            /\ spc' = "hello_rd"
            /\ loc' = loc
       ELSE /\ StartFails
            /\ workers' = workers
    /\ UNCHANGED <<wpc, stop_watcher, child, fifo, lops, nonlifevars>>

\* _start_subprocess: self._call("Hello", ...), the reply of the worker
\* process. A nonzero status raises an AMSPipeError, which except
\* AMSWorkerError does not catch.
HelloRead ==
    /\ spc = "hello_rd"
    /\ fifo.reply.child = "open"
    /\ \E s \in Statuses :
         /\ spc' = "idle"
         /\ SetLW([LW EXCEPT !.hello = (s = 0)])
         /\ loc' = [loc EXCEPT !.err = IF s = 0 THEN "" ELSE from_message(s)]
    /\ UNCHANGED <<wpc, stop_watcher, child, fifo, lops, nonlifevars>>

\* _start_subprocess: self._call("Hello", ...), _read_exactly meets the end
\* of file because nobody holds the write end of reply_pipe
HelloReadEOF ==
    /\ spc = "hello_rd"
    /\ ~ReplyPipeHasWriter(fifo)
    /\ StartFails
    /\ UNCHANGED <<workers, wpc, stop_watcher, child, fifo, lops, nonlifevars>>

\* _startup_watcher: while not self._stop_watcher.is_set()
WatcherLoop ==
    /\ wpc = "loop"
    /\ wpc' = IF stop_watcher THEN "done" ELSE "wait"
    /\ UNCHANGED <<workers, spc, stop_watcher, child, fifo, loc, lops, nonlifevars>>

\* _startup_watcher: self.proc.wait(timeout=0.01) returns (the process has
\* exited) or raises TimeoutExpired
WatcherWait ==
    /\ wpc = "wait"
    /\ IF LW.engine # "up"
       THEN /\ child' = [child EXCEPT !.reaped = TRUE]
            /\ wpc' = "chk"
       ELSE /\ wpc' = "loop"
            /\ child' = child
    /\ UNCHANGED <<workers, spc, stop_watcher, fifo, loc, lops, nonlifevars>>

\* A watcher that returns when the process has exited without opening the
\* pipes itself
WatcherCheckReturns ==
    /\ wpc = "chk"
    /\ wpc' = "done"
    /\ UNCHANGED <<workers, spc, stop_watcher, child, fifo, loc, lops, nonlifevars>>

\* _startup_watcher: if not self._stop_watcher.is_set(), else return
WatcherCheck ==
    /\ wpc = "chk"
    /\ wpc' = IF stop_watcher THEN "done" ELSE "w_open_call"
    /\ UNCHANGED <<workers, spc, stop_watcher, child, fifo, loc, lops, nonlifevars>>

\* _startup_watcher: open(call_pipe, 'rb') is entered
WatcherOpenCall ==
    /\ wpc = "w_open_call"
    /\ fifo' = FifoOpen(fifo, "call", "watcher")
    /\ wpc' = "w_open_call_w"
    /\ UNCHANGED <<workers, spc, stop_watcher, child, loc, lops, nonlifevars>>

\* _startup_watcher: open(call_pipe, 'rb') returns, open(reply_pipe, 'wb')
\* is entered
WatcherOpenReply ==
    /\ wpc = "w_open_call_w"
    /\ fifo.call.watcher = "open"
    /\ fifo' = FifoOpen(fifo, "reply", "watcher")
    /\ wpc' = "w_open_reply_w"
    /\ UNCHANGED <<workers, spc, stop_watcher, child, loc, lops, nonlifevars>>

\* _startup_watcher: open(reply_pipe, 'wb') returns, the with block closes
\* both files, return
WatcherClose ==
    /\ wpc = "w_open_reply_w"
    /\ fifo.reply.watcher = "open"
    /\ fifo' = [fifo EXCEPT !.call.watcher = "closed", !.reply.watcher = "closed"]
    /\ wpc' = "done"
    /\ UNCHANGED <<workers, spc, stop_watcher, child, loc, lops, nonlifevars>>

\* The worker process opens call_pipe for reading
ChildOpenCall ==
    /\ LW.engine = "up"
    /\ fifo.call.child = "closed"
    /\ fifo' = FifoOpen(fifo, "call", "child")
    /\ UNCHANGED <<workers, spc, wpc, stop_watcher, child, loc, lops, nonlifevars>>

\* The worker process, past its open of call_pipe, opens reply_pipe for writing
ChildOpenReply ==
    /\ LW.engine = "up"
    /\ fifo.call.child = "open"
    /\ fifo.reply.child = "closed"
    /\ fifo' = FifoOpen(fifo, "reply", "child")
    /\ UNCHANGED <<workers, spc, wpc, stop_watcher, child, loc, lops, nonlifevars>>

\* The worker process writes a line to its stdout (ams.out)
ChildOutput ==
    /\ LW.engine = "up"
    /\ child.out < MaxOut
    /\ child' = [child EXCEPT !.out = @ + 1]
    /\ UNCHANGED <<workers, spc, wpc, stop_watcher, fifo, loc, lops, nonlifevars>>

\* The worker process exits: by itself, on an error, or after an Exit request
ChildExit ==
    /\ LW.engine = "up"
    /\ SetLW([LW EXCEPT !.engine = "dead", !.server = {}])
    /\ fifo' = ChildGone(fifo)
    /\ UNCHANGED <<spc, wpc, stop_watcher, child, loc, lops, nonlifevars>>

\* A stop() that empties the worker directory before anything else
StopSequenceRemovesFirst == <<"st_rm", "st_read", "st_clear", "st_close", "st_ret">>

\* stop(), once the process is down: self.proc = None and read ams.out and
\* ams.err back, clear the restart cache, tear down the pipes, remove the
\* contents of the worker directory, return
StopSequence == <<"st_read", "st_clear", "st_close", "st_rm", "st_ret">>

StopFirst == StopSequence[1]

StopNext(l) ==
    LET k == CHOOSE j \in 1 .. Len(StopSequence) : StopSequence[j] = l
    IN IF k < Len(StopSequence) THEN StopSequence[k + 1] ELSE "idle"

StopLabels == {"st_begin", "st_exit", "st_wait", "st_kill", "st_killwait",
               "st_read", "st_clear", "st_close", "st_rm", "st_ret"}

\* worker.stop() is called by the user
LStop ==
    /\ spc = "idle"
    /\ lops < MaxLifeOps
    /\ lops' = lops + 1
    /\ SetLW([LW EXCEPT !.wire = <<>>, !.stopped = TRUE])
    /\ loc' = [NoLoc EXCEPT !.why = "user"]
    /\ spc' = "st_begin"
    /\ UNCHANGED <<wpc, stop_watcher, child, fifo, nonlifevars>>

\* stop(): if self.proc is not None: if self._check_process(): ...
StopBegin ==
    /\ spc = "st_begin"
    /\ loc' = [loc EXCEPT !.hadproc = (LW.proc # "None"),
                          !.alive = _check_process(LW)]
    /\ IF _check_process(LW)
       THEN spc' = "st_exit" /\ child' = child
       ELSE /\ spc' = StopFirst
            /\ child' = IF LW.proc # "None"
                        THEN [child EXCEPT !.reaped = TRUE] ELSE child
    /\ UNCHANGED <<workers, wpc, stop_watcher, fifo, lops, nonlifevars>>

\* stop(): self._call("Exit"); a BrokenPipeError becomes an AMSWorkerError,
\* which the except clause answers with kill()
StopExit ==
    /\ spc = "st_exit"
    /\ loc' = [loc EXCEPT !.exits = @ + 1,
                          !.err = IF LW.callpipe = "None"
                                  THEN "AttributeError" ELSE @]
    /\ IF LW.callpipe = "None"
       THEN spc' = "idle" /\ workers' = workers
       ELSE IF CallPipeHasReader(fifo)
       THEN spc' = "st_wait" /\ SetLW(Written(LW, "Exit", 0))
       ELSE spc' = "st_kill" /\ workers' = workers
    /\ UNCHANGED <<wpc, stop_watcher, child, fifo, lops, nonlifevars>>

\* stop(): self.proc.wait(timeout=self.timeout) returns or raises
\* TimeoutExpired
StopWait ==
    /\ spc = "st_wait"
    /\ IF LW.engine # "up"
       THEN /\ child' = [child EXCEPT !.reaped = TRUE]
            /\ spc' = StopFirst
       ELSE /\ spc' = "st_kill"
            /\ child' = child
    /\ UNCHANGED <<workers, wpc, stop_watcher, fifo, loc, lops, nonlifevars>>

\* A stop() whose except clause does not kill the process
StopKillMissing ==
    /\ spc = "st_kill"
    /\ spc' = "st_killwait"
    /\ UNCHANGED <<workers, wpc, stop_watcher, child, fifo, loc, lops, nonlifevars>>

\* stop(), except (AMSWorkerError, TimeoutExpired): self.proc.kill()
StopKill ==
    /\ spc = "st_kill"
    /\ SetLW([LW EXCEPT !.engine = "dead", !.server = {}])
    /\ fifo' = ChildGone(fifo)
    /\ loc' = [loc EXCEPT !.kills = @ + 1]
    /\ spc' = "st_killwait"
    /\ UNCHANGED <<wpc, stop_watcher, child, lops, nonlifevars>>

\* stop(), except clause: self.proc.wait() returns once the process is gone
StopKillWait ==
    /\ spc = "st_killwait"
    /\ LW.engine # "up"
    /\ child' = [child EXCEPT !.reaped = TRUE]
    /\ spc' = StopFirst
    /\ UNCHANGED <<workers, wpc, stop_watcher, fifo, loc, lops, nonlifevars>>

\* stop(): self.proc = None; stdout = readlines() of ams.out, stderr of
\* ams.err (skipped without a process)
StopRead ==
    /\ spc = "st_read"
    /\ IF LW.proc = "None"
       THEN /\ spc' = StopNext("st_read")
            /\ UNCHANGED <<workers, loc>>
       ELSE /\ SetLW([LW EXCEPT !.proc = "None"])
            /\ IF child.files
               THEN /\ loc' = [loc EXCEPT !.stdout = child.out]
                    /\ spc' = StopNext("st_read")
               ELSE /\ loc' = [loc EXCEPT !.err = "FileNotFoundError"]
                    /\ spc' = "idle"
    /\ UNCHANGED <<wpc, stop_watcher, child, fifo, lops, nonlifevars>>

\* stop(): self.restart_cache.clear(); self.restart_cache_deleted.clear()
StopClear ==
    /\ spc = "st_clear"
    /\ SetLW([LW EXCEPT !.restart_cache = {}, !.restart_cache_deleted = {}])
    /\ spc' = StopNext("st_clear")
    /\ UNCHANGED <<wpc, stop_watcher, child, fifo, loc, lops, nonlifevars>>

\* stop(): close callpipe and set it to None; close replypipe, which stays a
\* closed file because the assignment goes to self.readpipe
StopClose ==
    /\ spc = "st_close"
    /\ SetLW([LW EXCEPT !.callpipe = "None",
                        !.replypipe = IF @ = "None" THEN "None" ELSE "closed"])
    /\ fifo' = [fifo EXCEPT !.call.main = "closed", !.reply.main = "closed"]
    /\ spc' = StopNext("st_close")
    /\ UNCHANGED <<wpc, stop_watcher, child, loc, lops, nonlifevars>>

\* stop(): remove the contents of the worker directory
StopRemove ==
    /\ spc = "st_rm"
    /\ child' = [child EXCEPT !.files = FALSE]
    /\ spc' = StopNext("st_rm")
    /\ UNCHANGED <<workers, wpc, stop_watcher, fifo, loc, lops, nonlifevars>>

\* stop(): return (stdout, stderr); in _start_subprocess the except clause
\* attaches them to the AMSWorkerError and re-raises
StopReturn ==
    /\ spc = "st_ret"
    /\ SetLW([LW EXCEPT !.engine = IF @ = "up" THEN "up" ELSE "none",
                        !.hello = IF loc.hadproc THEN FALSE ELSE @,
                        !.epoch = @ + 1])
    /\ loc' = IF loc.why = "user" THEN loc
              ELSE [loc EXCEPT !.err = "AMSWorkerError", !.errout = loc.stdout]
    /\ spc' = StopNext("st_ret")
    /\ UNCHANGED <<wpc, stop_watcher, child, fifo, lops, nonlifevars>>

\* A new AMSWorker object right before its constructor calls
\* _start_subprocess
InitLife ==
    /\ workers = [w \in Workers |-> NewWorker(TRUE)]
    /\ InitThreads({}, [t \in Threads |-> 1])
    /\ held = {}
    /\ nops = 0
    /\ ncrash = 0
    /\ InitNoPool
    /\ spc = "idle"
    /\ wpc = "none"
    /\ stop_watcher = FALSE
    /\ child = NoChild
    /\ fifo = NoFifo
    /\ loc = NoLoc
    /\ lops = 0
    /\ InitNoCall
    /\ InitNoFlat
    /\ InitNoSolve

\* The steps of the thread that runs _start_subprocess or stop() which
\* wait for nothing but the watcher thread or a timeout
LifeMain ==
    \/ StartWatcher \/ OpenCall \/ OpenCallReturn \/ OpenReply
    \/ OpenReplyReturn \/ SetStop \/ Join \/ CheckStarted \/ HelloWrite
    \/ HelloReadEOF \/ StopBegin \/ StopExit \/ StopWait \/ StopKill
    \/ StopKillWait \/ StopRead \/ StopClear \/ StopClose \/ StopRemove
    \/ StopReturn

\* The steps of the watcher thread
LifeWatcher ==
    \/ WatcherLoop \/ WatcherWait \/ WatcherCheck \/ WatcherOpenCall
    \/ WatcherOpenReply \/ WatcherClose

NextLife ==
    \/ LStart
    \/ LStop
    \/ StartWatcher
    \/ OpenCall
    \/ OpenCallReturn
    \/ OpenReply
    \/ OpenReplyReturn
    \/ SetStop
    \/ Join
    \/ CheckStarted
    \/ HelloWrite
    \/ HelloRead
    \/ HelloReadEOF
    \/ StopBegin
    \/ StopExit
    \/ StopWait
    \/ StopKill
    \/ StopKillWait
    \/ StopRead
    \/ StopClear
    \/ StopClose
    \/ StopRemove
    \/ StopReturn
    \/ WatcherLoop
    \/ WatcherWait
    \/ WatcherCheck
    \/ WatcherOpenCall
    \/ WatcherOpenReply
    \/ WatcherClose
    \/ ChildOpenCall
    \/ ChildOpenReply
    \/ ChildOutput
    \/ ChildExit

\* A thread that can take a step takes one: the interpreter schedules both
\* threads. Nothing is assumed about the worker process.
SpecLife ==
    /\ InitLife
    /\ [][NextLife]_vars
    /\ WF_vars(LifeMain)
    /\ WF_vars(LifeWatcher)

-----------------------------------------------------------------------------
(* SpecPoolInit: AMSWorkerPool.__init__, one _spawn_worker thread per slot  *)

\* A check after the joins that looks at the first slot only
SomeSlotNoneFirstOnly == slots[1] = "None"

\* AMSWorkerPool.__init__: None in self.workers
SomeSlotNone == \E w \in Workers : slots[w] = "None"

\* __init__: for t in threads: t.start(), one thread per step
PoolInitStart ==
    /\ mpc = "pstart"
    /\ IF mi > NumWorkers
       THEN /\ mpc' = "pjoin"
            /\ mi' = 1
            /\ pc' = pc
       ELSE /\ pc' = [pc EXCEPT ![mi] = "spawn"]
            /\ mi' = mi + 1
            /\ mpc' = mpc
    /\ UNCHANGED <<workers, tw, op, todo, exc, ret, recovered, held, nops,
                   ncrash, items, results, q, slots, lifevars, callvars, flatvars, solvevars>>

\* _spawn_worker: AMSWorker(settings, ..., use_restart_cache=False), the
\* constructor up to its call of _start_subprocess
SpawnConstruct(t) ==
    /\ pc[t] = "spawn"
    /\ SetWorker(t, NewWorker(FALSE))
    /\ Goto(t, "start")
    /\ UNCHANGED <<tw, op, todo, exc, ret, recovered, held, nops, ncrash,
                   poolvars, lifevars, callvars, flatvars, solvevars>>

\* _spawn_worker: the constructor's _start_subprocess; an exception ends the
\* thread with workers[i] unassigned
SpawnStart(t) ==
    /\ pc[t] = "start"
    /\ \E o \in StartOutcomes, s \in Statuses \ {0} :
        /\ SetWorker(t, _start_subprocess(W(t), o))
        /\ IF StartRaises(o, s) # ""
           THEN /\ Goto(t, "dead")
                /\ ret' = [ret EXCEPT ![t] =
                             Raised(StartRaises(o, s),
                                    IF StartRaises(o, s) = "AMSWorkerError"
                                    THEN "captured" ELSE "None")]
           ELSE /\ Goto(t, "assign")
                /\ ret' = ret
    /\ UNCHANGED <<tw, op, todo, exc, recovered, held, nops, ncrash,
                   poolvars, lifevars, callvars, flatvars, solvevars>>

\* _spawn_worker: workers[i] = <the new AMSWorker>; the thread ends
SpawnAssign(t) ==
    /\ pc[t] = "assign"
    /\ slots' = [slots EXCEPT ![tw[t]] = "AMSWorker"]
    /\ Goto(t, "exit")
    /\ UNCHANGED <<workers, tw, op, todo, exc, ret, recovered, held, nops,
                   ncrash, items, results, q, mpc, mi, lifevars, callvars, flatvars, solvevars>>

\* __init__: for t in threads: t.join(), one thread per step
PoolInitJoin ==
    /\ mpc = "pjoin"
    /\ IF mi > NumWorkers
       THEN /\ mpc' = "pcheck"
            /\ mi' = mi
       ELSE /\ pc[mi] \in {"exit", "dead"}
            /\ mi' = mi + 1
            /\ mpc' = mpc
    /\ UNCHANGED <<workers, tw, held, nops, ncrash, items, results, q, slots,
                   threadvars, lifevars, callvars, flatvars, solvevars>>

\* __init__: if None in self.workers: raise PlamsError; otherwise the pool is
\* constructed and idle
PoolInitCheck ==
    /\ mpc = "pcheck"
    /\ mpc' = IF SomeSlotNone THEN "raised" ELSE "idle"
    /\ UNCHANGED <<workers, tw, held, nops, ncrash, items, results, q, mi,
                   slots, threadvars, lifevars, callvars, flatvars, solvevars>>

\* AMSWorkerPool(settings, num_workers) is called:
\* self.workers = num_workers * [None] and the thread objects exist
InitPoolInit ==
    /\ workers = [w \in Workers |-> NewWorker(FALSE)]
    /\ InitThreads({}, [t \in Threads |-> t])
    /\ held = {}
    /\ nops = 0
    /\ ncrash = 0
    /\ items = <<>>
    /\ results = <<>>
    /\ q = <<>>
    /\ mpc = "pstart"
    /\ mi = 1
    /\ slots = [w \in Workers |-> "None"]
    /\ InitNoLife
    /\ InitNoCall
    /\ InitNoFlat
    /\ InitNoSolve

NextPoolInit ==
    \/ PoolInitStart
    \/ \E t \in Threads : SpawnConstruct(t)
    \/ \E t \in Threads : SpawnStart(t)
    \/ \E t \in Threads : SpawnAssign(t)
    \/ PoolInitJoin
    \/ PoolInitCheck

SpecPoolInit == InitPoolInit /\ [][NextPoolInit]_vars

-----------------------------------------------------------------------------
(* SpecCall: one _call(method, args) step by step, against a call pipe that *)
(* has a reader or not and a reply pipe that delivers a given byte stream    *)

\* struct "=i": the values of a signed integer of LenBits bits
IntMax == 2 ^ (LenBits - 1) - 1
IntMin == -(2 ^ (LenBits - 1))

\* A struct.pack that wraps a length around instead of refusing it
pack_wraps(n) == << ((n - IntMin) % (2 ^ LenBits)) + IntMin >>

\* _call: struct.pack("=i", len(msg)): the packed value, or nothing when
\* struct.error is raised
pack(n) == IF n >= IntMin /\ n <= IntMax THEN <<n>> ELSE <<>>

\* The methods _call is used with
Methods == SetMethods \cup {"Hello", "Solve", "Exit"}

\* len(msg) of the request: small, the largest that fits, the first that
\* does not
RequestLens == {1, IntMax, IntMax + 1}

\* The status of a "return" message
CallStatuses == {0, 1, RUNTIME_ERROR}

\* A frame on reply_pipe: the bytes of its prefix that are there (of 4), the
\* length the prefix announces, the payload bytes that are there, and what
\* the payload is: a message without "return", a "return" message with a
\* status, or bytes that ubjson cannot decode
ReplyFrame(pre, len, have, kind, status) ==
    [pre |-> pre, len |-> len, have |-> have, kind |-> kind, status |-> status]

\* Frames that are on the pipe from first to last byte
WholeFrames ==
    { ReplyFrame(4, n, 0, "junk", 0) : n \in (-MaxNegLen) .. 0 }
        \cup { ReplyFrame(4, 1, 1, k, 0) : k \in {"msg", "junk"} }
        \cup { ReplyFrame(4, 1, 1, "return", s) : s \in CallStatuses }

\* Frames cut short: inside the prefix, or inside the payload
CutFrames == { ReplyFrame(2, 0, 0, "junk", 0), ReplyFrame(4, 1, 0, "junk", 0) }

\* The byte streams: whole frames, then possibly one that is cut short
ReplyStreams ==
    UNION { { s \in [1 .. n -> WholeFrames \cup CutFrames] :
                \A i \in 1 .. (n - 1) : s[i] \in WholeFrames } :
            n \in 0 .. MaxFrames }

\* _read_exactly(pipe, n) with avail bytes on the pipe before its end (eof:
\* the write end is closed): pipe.read(n) refuses n < -1, reads to the end of
\* the stream for n = -1, and otherwise returns n bytes, or fewer at the end
\* of the stream; "block" when it waits for more
_read_exactly(avail, n, eof) ==
    IF n < -1 THEN "ValueError"
    ELSE IF n = -1 THEN (IF eof THEN "EOFError" ELSE "block")
    ELSE IF avail >= n THEN "buf"
    ELSE IF eof THEN "EOFError"
    ELSE "block"

\* A read loop without its except EOFError clause
ReadErrorUncaught(e) == e

\* _call: except EOFError: raise AMSWorkerError("Error while trying to read
\* a reply")
ReadError(e) == IF e = "EOFError" THEN "AMSWorkerError" ELSE e

\* A read loop that puts each new message in front of the earlier ones
AccumulateInFront(results_, i) == <<i>> \o results_

\* _call: results.append(msg); a message is known by its place in the stream
Accumulate(results_, i) == Append(results_, i)

\* _call has ended: it returned out ("None" or "results") or raised it
CallDone(out, cause) ==
    call' = [call EXCEPT !.cpc = "done", !.out = out, !.cause = cause]

callothers == <<workers, pc, tw, op, todo, exc, ret, recovered, held, nops,
                ncrash, poolvars, lifevars, flatvars, solvevars>>

\* _call: msg = ubjson.dumpb(...); msglen = struct.pack("=i", len(msg))
CallPack ==
    /\ call.cpc = "pack"
    /\ IF pack(call.plen) = <<>>
       THEN CallDone("struct.error", "pack")
       ELSE call' = [call EXCEPT !.cpc = "write", !.msglen = pack(call.plen)[1]]
    /\ UNCHANGED <<io, callothers>>

\* _call: self.callpipe.write(msglen + msg); a Set method returns None here.
\* The frame stays in the buffer of callpipe; without a reader the write
\* itself may already meet the broken pipe.
CallWriteFrame ==
    /\ call.cpc = "write"
    /\ \/ /\ io' = [io EXCEPT !.sent = Append(@, [prefix |-> call.msglen,
                                                  size |-> call.plen])]
          /\ IF call.method \in SetMethods
             THEN CallDone("None", "")
             ELSE call' = [call EXCEPT !.cpc = "flush"]
       \/ /\ ~io.reader
          /\ io' = io
          /\ CallDone("AMSWorkerError", "write")
    /\ UNCHANGED callothers

\* _call: self.callpipe.flush(); BrokenPipeError becomes AMSWorkerError;
\* "Exit" returns None here
CallFlush ==
    /\ call.cpc = "flush"
    /\ IF ~io.reader
       THEN /\ CallDone("AMSWorkerError", "write")
            /\ io' = io
       ELSE /\ io' = [io EXCEPT !.flushed = TRUE]
            /\ IF AwaitsReply(call.method)
               THEN call' = [call EXCEPT !.cpc = "rd_len"]
               ELSE CallDone("None", "")
    /\ UNCHANGED callothers

\* The bytes of the prefix of the next frame that are on reply_pipe
PrefixThere ==
    IF call.pos > Len(io.stream) THEN 0 ELSE io.stream[call.pos].pre

\* _call: msgbuf = self._read_exactly(self.replypipe, 4); msglen = unpack
CallReadPrefix ==
    /\ call.cpc = "rd_len"
    /\ _read_exactly(PrefixThere, 4, io.eof) # "block"
    /\ IF _read_exactly(PrefixThere, 4, io.eof) = "buf"
       THEN call' = [call EXCEPT !.cpc = "rd_msg",
                                 !.msglen = io.stream[call.pos].len]
       ELSE CallDone(ReadError(_read_exactly(PrefixThere, 4, io.eof)), "prefix")
    /\ UNCHANGED <<io, callothers>>

\* _call: msgbuf = self._read_exactly(self.replypipe, msglen). A read to the
\* end of the stream takes every frame that follows with it.
CallReadPayload ==
    /\ call.cpc = "rd_msg"
    /\ LET r == _read_exactly(io.stream[call.pos].have, call.msglen, io.eof)
       IN /\ r # "block"
          /\ IF r = "buf"
             THEN call' = [call EXCEPT !.cpc = "decode"]
             ELSE call' = [call EXCEPT !.cpc = "done", !.out = ReadError(r),
                                       !.cause = "payload",
                                       !.pos = IF call.msglen = -1
                                               THEN Len(io.stream) + 1 ELSE @]
    /\ UNCHANGED <<io, callothers>>

\* _call: msg = ubjson.loadb(msgbuf), then the test for "return"
CallDecode ==
    /\ call.cpc = "decode"
    /\ LET f == io.stream[call.pos]
       IN IF f.kind = "junk" \/ f.have < 1
          THEN call' = [call EXCEPT !.cpc = "done", !.out = "AMSWorkerError",
                                    !.cause = "decode", !.pos = @ + 1]
          ELSE IF f.kind = "msg"
          THEN call' = [call EXCEPT !.cpc = "rd_len", !.pos = @ + 1,
                                    !.results = Accumulate(@, call.pos)]
          ELSE IF f.status = 0
          THEN call' = [call EXCEPT !.cpc = "done", !.out = "results",
                                    !.cause = "", !.pos = @ + 1]
          ELSE call' = [call EXCEPT !.cpc = "done",
                                    !.out = from_message(f.status),
                                    !.cause = "status", !.pos = @ + 1]
    /\ UNCHANGED <<io, callothers>>

\* self._call(method, args) is entered, with callpipe and replypipe open
InitCall ==
    /\ workers = [w \in Workers |-> NewWorker(TRUE)]
    /\ InitThreads({}, [t \in Threads |-> 1])
    /\ held = {}
    /\ nops = 0
    /\ ncrash = 0
    /\ InitNoPool
    /\ InitNoLife
    /\ InitNoFlat
    /\ InitNoSolve
    /\ \E m \in Methods, n \in RequestLens :
          call = [NoCall EXCEPT !.method = m, !.plen = n, !.cpc = "pack"]
    /\ \E r \in BOOLEAN, s \in ReplyStreams, e \in BOOLEAN :
          io = [sent |-> <<>>, flushed |-> FALSE, reader |-> r, stream |-> s,
                eof |-> e]

NextCall ==
    \/ CallPack
    \/ CallWriteFrame
    \/ CallFlush
    \/ CallReadPrefix
    \/ CallReadPayload
    \/ CallDecode

SpecCall == InitCall /\ [][NextCall]_vars

-----------------------------------------------------------------------------
(* SpecFlatten: _flatten_arrays followed by _unflatten_arrays                *)

\* A key of a mapping: a base name followed by so many "_dim_" suffixes
Key(base, dims) == [base |-> base, dims |-> dims]

\* key + "_dim_"
KeyDim(k) == [k EXCEPT !.dims = @ + 1]

\* key.endswith("_dim_")
EndsWithDim(k) == k.dims >= 1

\* The values of a mapping. An array is its shape and its element at each
\* index; what array.flatten() returns is a rank-1 array given by its
\* elements in order; a shape descriptor is a tuple of dimensions.
Value(t, v, shape, at, data, its) ==
    [t |-> t, v |-> v, shape |-> shape, at |-> at, data |-> data, items |-> its]

Scalar(n) == Value("scalar", n, <<>>, <<>>, <<>>, <<>>)
Str == Value("str", 0, <<>>, <<>>, <<>>, <<>>)
Flat(data) == Value("flat", 0, <<Len(data)>>, <<>>, data, <<>>)
Dims(shape) == Value("dims", 0, <<Len(shape)>>, <<>>, shape, <<>>)
Map(its) == Value("map", 0, <<>>, <<>>, <<>>, its)

\* The indices of an array of rank 1 or 2
Indices(shape) ==
    IF Len(shape) = 1 THEN { <<i>> : i \in 1 .. shape[1] }
    ELSE { <<i, j>> : i \in 1 .. shape[1], j \in 1 .. shape[2] }

\* An array of the given shape whose elements all differ
Array(shape) ==
    Value("array", 0, shape,
          [idx \in Indices(shape) |->
              10 * idx[1] + (IF Len(shape) = 2 THEN idx[2] ELSE 0)],
          <<>>, <<>>)

RECURSIVE Prod(_)
Prod(shape) == IF shape = <<>> THEN 1 ELSE Head(shape) * Prod(Tail(shape))

\* shape[::-1]
Reverse(s) == [i \in 1 .. Len(s) |-> s[Len(s) + 1 - i]]

\* The place of the element at idx in row-major order, the last index
\* running fastest
RowMajor(shape, idx) ==
    IF Len(shape) = 1 THEN idx[1] ELSE (idx[1] - 1) * shape[2] + idx[2]

\* array.flatten(): the elements in row-major order
ArrayFlatten(a) ==
    IF a.t = "array"
    THEN [k \in 1 .. Prod(a.shape) |->
             a.at[CHOOSE idx \in Indices(a.shape) : RowMajor(a.shape, idx) = k]]
    ELSE a.data

\* np.asarray(val).reshape(dims[::-1]) for val and the value found at
\* key + "_dim_": an array, or an exception when that value is no sequence
\* of integers or does not fit the number of elements
Reshape(val, dimsval) ==
    LET elems == IF val.t \in {"flat", "dims"} THEN val.data ELSE <<0>>
        shape == Reverse(dimsval.data)
    IN IF dimsval.t \notin {"flat", "dims"}
          \/ Len(shape) \notin {1, 2}
          \/ \E i \in 1 .. Len(shape) : shape[i] < 0
          \/ Prod(shape) # Len(elems)
       THEN [ok |-> FALSE, a |-> Str]
       ELSE [ok |-> TRUE,
             a |-> Value("array", 0, shape,
                         [idx \in Indices(shape) |->
                             elems[RowMajor(shape, idx)]],
                         <<>>, <<>>)]

\* A mapping is the sequence of its <<key, value>> items in insertion order
Has(d, k) == \E i \in 1 .. Len(d) : d[i][1] = k

Get(d, k) == d[CHOOSE i \in 1 .. Len(d) : d[i][1] = k][2]

\* out[key] = val
Put(d, k, v) ==
    IF Has(d, k)
    THEN [i \in 1 .. Len(d) |-> IF d[i][1] = k THEN <<k, v>> ELSE d[i]]
    ELSE Append(d, <<k, v>>)

RECURSIVE _flatten_arrays(_)
RECURSIVE FlattenItems(_, _, _)
RECURSIVE _unflatten_arrays(_)
RECURSIVE UnflattenItems(_, _, _)

\* _flatten_arrays: the loop over d.items() from item i on
FlattenItems(d, i, out) ==
    IF i > Len(d) THEN out
    ELSE LET key == d[i][1]
             val == d[i][2]
         IN IF val.t \in {"array", "flat", "dims"}
            THEN FlattenItems(d, i + 1,
                     Put(Put(out, key, Flat(ArrayFlatten(val))),
                         KeyDim(key), Dims(Reverse(val.shape))))
            ELSE IF val.t = "map"
            THEN FlattenItems(d, i + 1,
                     Put(out, key, Map(_flatten_arrays(val.items))))
            ELSE FlattenItems(d, i + 1, Put(out, key, val))

_flatten_arrays(d) == FlattenItems(d, 1, <<>>)

\* _unflatten_arrays: the loop over d.items() from item i on; ok is FALSE
\* when a reshape raised
UnflattenItems(d, i, out) ==
    IF i > Len(d) THEN [ok |-> TRUE, d |-> out]
    ELSE LET key == d[i][1]
             val == d[i][2]
         IN IF Has(d, KeyDim(key))
            THEN IF Reshape(val, Get(d, KeyDim(key))).ok
                 THEN UnflattenItems(d, i + 1,
                          Put(out, key, Reshape(val, Get(d, KeyDim(key))).a))
                 ELSE [ok |-> FALSE, d |-> <<>>]
            ELSE IF EndsWithDim(key)
            THEN UnflattenItems(d, i + 1, out)
            ELSE IF val.t = "map"
            THEN IF _unflatten_arrays(val.items).ok
                 THEN UnflattenItems(d, i + 1,
                          Put(out, key, Map(_unflatten_arrays(val.items).d)))
                 ELSE [ok |-> FALSE, d |-> <<>>]
            ELSE UnflattenItems(d, i + 1, Put(out, key, val))

_unflatten_arrays(d) == UnflattenItems(d, 1, <<>>)

\* Equality of two mappings as Python compares dicts: the same keys with
\* equal values, in any order
RECURSIVE DictEq(_, _)
DictEq(d1, d2) ==
    /\ Len(d1) = Len(d2)
    /\ \A i \in 1 .. Len(d1) :
          /\ Has(d2, d1[i][1])
          /\ IF d1[i][2].t = "map" /\ Get(d2, d1[i][1]).t = "map"
             THEN DictEq(d1[i][2].items, Get(d2, d1[i][1]).items)
             ELSE d1[i][2] = Get(d2, d1[i][1])

\* The inputs: keys with and without the "_dim_" suffix, and as values a
\* scalar, a string, arrays of rank 1 and 2 (empty ones included) and nested
\* mappings of those
FlatKeys == {Key("a", 0), Key("a", 1), Key("b", 0)}

ArrayShapes == {<<0>>, <<2>>, <<2, 3>>, <<0, 2>>}

Leaves == {Scalar(7), Str} \cup {Array(sh) : sh \in ArrayShapes}

InnerMaps ==
    {<<>>} \cup { << <<k, v>> >> : k \in {Key("a", 0), Key("a", 1)}, v \in Leaves }

FlatValues == Leaves \cup {Map(im) : im \in InnerMaps}

FlatInputs ==
    UNION { { d \in [1 .. n -> FlatKeys \X FlatValues] :
                \A i, j \in 1 .. n : i # j => d[i][1] # d[j][1] } :
            n \in 0 .. MaxKeys }

flatothers == <<workers, pc, tw, op, todo, exc, ret, recovered, held, nops,
                ncrash, poolvars, lifevars, callvars, solvevars>>

\* d = self._flatten_arrays(x)
DoFlatten ==
    /\ fpc = "flatten"
    /\ fy' = _flatten_arrays(fx)
    /\ fpc' = "unflatten"
    /\ UNCHANGED <<fx, fz, flatothers>>

\* self._unflatten_arrays(d)
DoUnflatten ==
    /\ fpc = "unflatten"
    /\ fz' = _unflatten_arrays(fy)
    /\ fpc' = "done"
    /\ UNCHANGED <<fx, fy, flatothers>>

InitFlatten ==
    /\ workers = [w \in Workers |-> NewWorker(TRUE)]
    /\ InitThreads({}, [t \in Threads |-> 1])
    /\ held = {}
    /\ nops = 0
    /\ ncrash = 0
    /\ InitNoPool
    /\ InitNoLife
    /\ InitNoCall
    /\ InitNoSolve
    /\ fpc = "flatten"
    /\ fx \in FlatInputs
    /\ fy = <<>>
    /\ fz = [ok |-> TRUE, d |-> <<>>]

NextFlatten ==
    \/ DoFlatten
    \/ DoUnflatten

SpecFlatten == InitFlatten /\ [][NextFlatten]_vars

-----------------------------------------------------------------------------
(* SpecSolve: the requests one _solve sends, on a worker whose restart cache *)
(* is enabled or not, between releases of results and restarts               *)

\* Values of Settings.input.ams.task, as the caller spelled them
SolveTasks == {"singlepoint", "geometryoptimization", "SinglePoint",
               "GeometryOptimization", "moleculardynamics"}

\* A frame with the arguments that matter: the title, args["prevTitle"]
\* (0 when absent), args["keepResults"], the lattice vectors ("" when the
\* call has none, "empty" for {}), and whether the arguments of the geometry
\* optimization are in it
SolveFrame(m, title, prevTitle, keep, vectors, geo) ==
    [m |-> m, title |-> title, prevTitle |-> prevTitle, keepResults |-> keep,
     vectors |-> vectors, geo |-> geo]

\* A _solve that names the previous results whenever the caller passed some
PrevTitleUnchecked(ws, prev) == prev

\* _solve: the value of args["prevTitle"], 0 for no such key; prev is
\* prev_results.name, 0 for prev_results = None
PrevTitle(ws, prev) ==
    IF ws.use_restart_cache /\ prev # 0 /\ prev \in ws.restart_cache
    THEN prev ELSE 0

\* _solve: the arguments of the geometry optimization are added in the
\* branch of Optimize alone
GeoArgsSent(task, geo) == PrimaryMethod(task) = "Optimize" /\ geo

solveothers == <<workers, pc, tw, op, todo, exc, ret, recovered, held, nops,
                 ncrash, poolvars, lifevars, callvars, flatvars>>

\* evaluate(name, molecule, settings): _settings_to_args, then _solve up to
\* and including _prune_restart_cache, every DeleteResults being answered
SolveStart ==
    /\ sol.pc = "idle"
    /\ senv.n < MaxSolves
    /\ senv' = [senv EXCEPT !.n = @ + 1]
    /\ \E name \in Names, prev \in {0} \cup Names, task \in SolveTasks,
          lattice \in BOOLEAN, geo \in BOOLEAN :
          LET s == [NoSolve EXCEPT !.name = name, !.prev = prev, !.task = task,
                                   !.lattice = lattice, !.geo = geo]
          IN IF ~SettingsSupported(task)
             THEN /\ sol' = [s EXCEPT !.pc = "idle", !.raised = "NotImplementedError"]
                  /\ sw' = sw
             ELSE IF DuplicateName(sw, name)
             THEN /\ sol' = [s EXCEPT !.pc = "idle", !.raised = "JobError"]
                  /\ sw' = sw
             ELSE /\ sol' = [s EXCEPT !.pc = "setsys"]
                  /\ sw' = PruneClear([sw EXCEPT !.server = @ \ PruneList(sw)])
    /\ UNCHANGED solveothers

\* _solve: self._call("SetSystem", chemicalSystem)
SolveSetSystem ==
    /\ sol.pc = "setsys"
    /\ sol' = [sol EXCEPT !.pc = "setlat",
                          !.frames = Append(@, SolveFrame("SetSystem", 0, 0, FALSE, "", FALSE))]
    /\ UNCHANGED <<sw, senv, solveothers>>

\* A _solve that sends SetLattice for the molecules with a lattice only
SolveSetLatticeIfAny ==
    /\ sol.pc = "setlat"
    /\ IF sol.lattice
       THEN /\ sol' = [sol EXCEPT !.pc = "primary",
                         !.frames = Append(@, SolveFrame("SetLattice", 0, 0, FALSE, "cell", FALSE))]
            /\ senv' = [senv EXCEPT !.lattice = "cell"]
       ELSE /\ sol' = [sol EXCEPT !.pc = "primary"]
            /\ senv' = senv
    /\ UNCHANGED <<sw, solveothers>>

\* _solve: self._call("SetLattice", {"vectors": cell}) or
\* self._call("SetLattice", {}); the engine takes the lattice it is sent
SolveSetLattice ==
    /\ sol.pc = "setlat"
    /\ LET vectors == IF sol.lattice THEN "cell" ELSE "empty"
       IN /\ sol' = [sol EXCEPT !.pc = "primary",
                        !.frames = Append(@, SolveFrame("SetLattice", 0, 0, FALSE, vectors, FALSE))]
          /\ senv' = [senv EXCEPT !.lattice = vectors]
    /\ UNCHANGED <<sw, solveothers>>

\* _solve: the arguments of the primary call, the call, and what follows a
\* reply with status 0: restart_cache.add(name), the finalizer registered on
\* the results the caller now holds
SolvePrimary ==
    /\ sol.pc = "primary"
    /\ sol' = [sol EXCEPT !.pc = "idle",
                  !.frames = Append(@, SolveFrame(PrimaryMethod(sol.task), sol.name,
                                                  PrevTitle(sw, sol.prev),
                                                  sw.use_restart_cache, "",
                                                  GeoArgsSent(sol.task, sol.geo)))]
    /\ sw' = SolveSucceeded(sw, sol.name)
    /\ senv' = [senv EXCEPT !.held = IF sw.use_restart_cache
                                     THEN @ \cup {sol.name} ELSE @]
    /\ UNCHANGED solveothers

\* A result the caller holds is deallocated between two calls
SolveRelease ==
    /\ sol.pc = "idle"
    /\ \E name \in senv.held :
          /\ senv' = [senv EXCEPT !.held = @ \ {name}]
          /\ sw' = _delete_from_restart_cache(sw, name)
    /\ UNCHANGED <<sol, solveothers>>

\* The worker is stopped and started again between two calls; the new
\* process has no system, no lattice and no results
SolveRestart ==
    /\ sol.pc = "idle"
    /\ senv.n < MaxSolves
    /\ sw.restart_cache \cup sw.restart_cache_deleted # {}
    /\ sw' = [_start_subprocess(stop(sw), "ready") EXCEPT !.wire = <<>>]
    /\ senv' = [senv EXCEPT !.lattice = "unset"]
    /\ UNCHANGED <<sol, solveothers>>

InitSolve ==
    /\ workers = [w \in Workers |-> NewWorker(TRUE)]
    /\ InitThreads({}, [t \in Threads |-> 1])
    /\ held = {}
    /\ nops = 0
    /\ ncrash = 0
    /\ InitNoPool
    /\ InitNoLife
    /\ InitNoCall
    /\ InitNoFlat
    /\ sol = [NoSolve EXCEPT !.pc = "idle"]
    /\ \E cache \in BOOLEAN : sw = [ReadyWorker(cache) EXCEPT !.wire = <<>>]
    /\ senv = [held |-> {}, lattice |-> "unset", n |-> 0]

NextSolve ==
    \/ SolveStart
    \/ SolveSetSystem
    \/ SolveSetLattice
    \/ SolvePrimary
    \/ SolveRelease
    \/ SolveRestart

SpecSolve == InitSolve /\ [][NextSolve]_vars

-----------------------------------------------------------------------------
(* Properties *)

\* Threads with a request written whose terminal message is not yet read
InFlight(w) ==
    { t \in Threads : tw[t] = w /\ pc[t] \in {"prune_rd", "solve_rd", "parse_rd"} }

\* C1: when AMSWorkerPool.evaluate returns, the list has the length of the
\* input and slot i holds the result of evaluating task i, carrying task i's
\* name.
C1_SlotsHoldResults ==
    mpc = "done" =>
        /\ Len(results) = Len(items)
        /\ \A i \in 1 .. Len(items) :
            /\ results[i].kind = "result"
            /\ results[i].id = i
            /\ results[i].name = items[i].name

\* C2: a worker never has two calls in flight, whatever threads call into it.
C2_OneCallInFlight ==
    \A w \in Workers : Cardinality(InFlight(w)) <= 1

\* C3: an evaluate that met a transport failure (AMSWorkerError in its try
\* block) ends by returning a failed result that carries the output captured
\* by stop(); it does not raise.
C3_TransportFailureReturns ==
    \A t \in Threads :
        (pc[t] = "ret" /\ op[t].kind = "evaluate" /\ exc[t].e = "AMSWorkerError")
        => /\ ret[t].kind = "result"
           /\ ret[t].err = "AMSWorkerError"
           /\ ret[t].out = "captured"
           /\ recovered[t]

\* C4: when evaluate or ParseInput is over on a worker the caller has not
\* stopped, returned or raised, the worker has a process, both pipes open and
\* a completed Hello handshake.
C4_WorkerReadyAfterOperation ==
    \A t \in Threads :
        (pc[t] = "ret" /\ op[t].kind \in {"evaluate", "parse"} /\ ~W(t).stopped)
        => /\ W(t).proc # "None"
           /\ W(t).callpipe = "open"
           /\ W(t).replypipe = "open"
           /\ W(t).hello

C6_NonzeroStatusReturns ==
    \A t \in Threads :
        (pc[t] = "ret" /\ op[t].kind = "evaluate" /\ op[t].status > 0)
        => (ret[t].kind = "result" /\ ret[t].err # "")

\* C7: when AMSWorkerPool.evaluate returns, no task of the batch is left in
\* the queue unevaluated, whatever happened to the other tasks.
C7_NoTaskLeftBehind ==
    mpc = "done" => \A k \in 1 .. Len(q) : q[k] = Sentinel

\* C8: while the result of a successful evaluate under a name is held and the
\* worker has not been stopped or restarted since, no evaluate under that name
\* gets past the duplicate-name check.
C8_HeldNameRejected ==
    \A t \in Threads :
        (op[t].kind = "evaluate" /\ W(t).use_restart_cache
            /\ pc[t] \notin {"idle", "ret", "off"})
        => ~ \E r \in held : /\ r.w = tw[t]
                             /\ r.name = op[t].name
                             /\ r.epoch = W(t).epoch

\* C9: an evaluate whose name is in the retained set is rejected in its first
\* step, and that step changes nothing of any worker: no frame written,
\* nothing read, process and both cache sets as they were.
C9_DuplicateRejectedBeforeIO ==
    [][ \A t \in Threads :
          ( /\ pc[t] = "idle"
            /\ pc'[t] # "idle"
            /\ op'[t].kind = "evaluate"
            /\ W(t).use_restart_cache
            /\ op'[t].name \in W(t).restart_cache )
          => /\ pc'[t] = "ret"
             /\ ret'[t].kind = "raise"
             /\ ret'[t].err \in {"JobError", "NotImplementedError"}
             /\ workers' = workers ]_vars

\* C9 witness: an evaluate has been rejected with JobError while its name is
\* retained and another name is pending deletion.
C9_Witness ==
    \E t \in Threads :
        /\ pc[t] = "ret"
        /\ op[t].kind = "evaluate"
        /\ ret[t].err = "JobError"
        /\ op[t].name \in W(t).restart_cache
        /\ W(t).restart_cache_deleted # {}
        /\ W(t).wire = <<>>

\* C10: a name leaves the pending-deletion set of a worker that keeps running
\* only when its DeleteResults request has been written in this operation,
\* and the primary request of an evaluate never carries a title the engine
\* process still keeps results of.
C10_DeletedOnlyAfterRequest ==
    [][ \A w \in Workers :
          /\ \A n \in workers[w].restart_cache_deleted :
                (n \notin workers'[w].restart_cache_deleted
                    /\ workers'[w].epoch = workers[w].epoch)
                => \E k \in 1 .. Len(workers[w].wire) :
                      workers[w].wire[k] = Frame("DeleteResults", n)
          /\ \A t \in Threads :
                (tw[t] = w /\ pc[t] = "solve" /\ pc'[t] = "solve_rd"
                    /\ workers[w].use_restart_cache)
                => op[t].name \notin workers[w].server ]_vars

\* The titles of the DeleteResults frames among the frames of a wire
DeletedTitles(wire) ==
    { wire[k].title : k \in { j \in 1 .. Len(wire) : wire[j].m = "DeleteResults" } }

\* The first n frames of the wire are DeleteResults frames, one per name of
\* the set pend, and no later frame is a DeleteResults
FlushedFirst(wire, pend) ==
    LET n == Cardinality(pend) IN
    /\ Len(wire) >= n
    /\ \A k \in 1 .. Len(wire) : (wire[k].m = "DeleteResults") <=> (k <= n)
    /\ DeletedTitles(wire) = pend

\* C11: an evaluate that passes the settings and duplicate-name checks starts
\* with the flush; when the flush is over exactly one DeleteResults per name
\* pending at the start has been written and nothing else, and the pending
\* set is empty; SetSystem, SetLattice and the primary request are written
\* only after those frames.
C11_EvaluateFlushesFirst ==
    [][ \A t \in Threads :
          /\ (pc[t] = "idle" /\ op'[t].kind = "evaluate" /\ pc'[t] # "ret")
                => pc'[t] = "prune"
          /\ (pc[t] = "prune" /\ pc'[t] = "setsys")
                => /\ Len(W(t).wire) = Cardinality(op[t].pend)
                   /\ FlushedFirst(W(t).wire, op[t].pend)
                   /\ workers'[tw[t]].restart_cache_deleted = {}
          /\ (pc[t] \in {"setsys", "setlat", "solve"}
                /\ Len(workers'[tw[t]].wire) > Len(W(t).wire))
                => FlushedFirst(workers'[tw[t]].wire, op[t].pend) ]_vars

\* C11 witness: the flush of two pending names is over and SetSystem is next
C11_Witness ==
    \E t \in Threads :
        /\ pc[t] = "setsys"
        /\ op[t].kind = "evaluate"
        /\ Cardinality(op[t].pend) = 2
        /\ Len(W(t).wire) = 2

C13_NoEntrySurvivesStop ==
    \A t \in Threads :
        ( /\ pc[t] \in {"restart", "ret"}
          /\ (op[t].kind = "stop" \/ recovered[t]) )
        => /\ W(t).restart_cache = {}
           /\ W(t).restart_cache_deleted = {}

\* C13 witness: an automatic restart has succeeded while the caller still
\* holds a result whose entry was made before it
C13_Witness ==
    \E t \in Threads :
        /\ pc[t] = "ret"
        /\ recovered[t]
        /\ W(t).hello
        /\ \E r \in held : r.w = tw[t] /\ r.epoch < W(t).epoch

\* C14: stop() called on a worker that has no process (already stopped)
\* returns (None, None), writes no frame and leaves every attribute of the
\* worker as it was (epoch and stopped are bookkeeping of this model, not
\* attributes), and touches no other worker.
C14_StopIsIdempotent ==
    [][ \A t \in Threads :
          ( /\ pc[t] = "idle"
            /\ op'[t].kind = "stop"
            /\ W(t).proc = "None" )
          => /\ pc'[t] = "ret"
             /\ ret'[t] = Returned("None")
             /\ workers'[tw[t]].wire = <<>>
             /\ [workers'[tw[t]] EXCEPT !.epoch = W(t).epoch,
                                        !.stopped = W(t).stopped] = W(t)
             /\ \A w \in Workers \ {tw[t]} : workers'[w] = workers[w] ]_vars

\* C14 witness: a second stop() has returned (None, None)
C14_Witness ==
    \E t \in Threads :
        /\ pc[t] = "ret"
        /\ op[t].kind = "stop"
        /\ ret[t] = Returned("None")
        /\ W(t).epoch >= 2
        /\ W(t).replypipe = "closed"

\* C17: whenever _check_process() of a worker is true, both pipes are open
\* and Hello has been answered with status 0.
C17_LiveMeansReady ==
    \A w \in Workers :
        _check_process(workers[w])
        => /\ workers[w].callpipe = "open"
           /\ workers[w].replypipe = "open"
           /\ workers[w].hello

\* C18: when _start_subprocess has failed (here: in the automatic restart),
\* the operation ends with an exception that carries the captured stdout and
\* stderr, and the worker has no process and no open pipe.
C18_FailedStartupTornDown ==
    \A t \in Threads :
        (pc[t] = "ret" /\ recovered[t] /\ ~W(t).hello)
        => /\ ret[t].kind = "raise"
           /\ ret[t].out = "captured"
           /\ W(t).proc = "None"
           /\ W(t).callpipe # "open"
           /\ W(t).replypipe # "open"

\* stop() found the process alive and is past the try/except that ends it
PastTermination ==
    /\ loc.alive
    /\ spc \in {"st_read", "st_clear", "st_close", "st_rm", "st_ret", "idle"}

\* C15: stop() on a worker whose process is alive makes exactly one Exit
\* call; it goes on past the process either without a kill, the Exit frame
\* having been written, or after one kill, and in both cases the process has
\* exited and has been reaped, which still holds when stop() has returned.
\* Every stop() that has begun returns.
C15_StopEndsProcess ==
    /\ [](PastTermination =>
            /\ loc.exits = 1
            /\ loc.kills \in {0, 1}
            /\ loc.kills = 0 =>
                  \E i \in 1 .. Len(LW.wire) : LW.wire[i].m = "Exit"
            /\ LW.engine # "up"
            /\ child.reaped)
    /\ [](spc \in {"st_kill", "st_killwait"} => loc.alive /\ loc.exits = 1)
    /\ (spc \in StopLabels) ~> (spc = "idle")

\* C15 witness: a stop() called by the user found the process alive, had to
\* kill it, and has returned
C15_Witness ==
    /\ spc = "idle"
    /\ loc.why = "user"
    /\ loc.alive
    /\ loc.kills = 1
    /\ loc.err = ""
    /\ LW.proc = "None"
    /\ child.reaped

\* C16: a stop() of a worker that has a process reads ams.out and ams.err
\* when the process has exited and has been reaped, while both pipes are
\* still open and the files are still in the worker directory; from then on
\* what it holds, returns, or attaches to the AMSWorkerError of a failed
\* startup is everything the process has written.
C16_OutputReadInOrder ==
    /\ (spc = "st_read" /\ LW.proc # "None") =>
          /\ LW.engine # "up"
          /\ child.reaped
          /\ LW.callpipe = "open"
          /\ LW.replypipe = "open"
          /\ child.files
    /\ (loc.hadproc /\ spc \in {"st_clear", "st_close", "st_rm", "st_ret", "idle"}) =>
          loc.stdout = child.out
    /\ (loc.hadproc /\ spc = "idle" /\ loc.why = "start_failed") =>
          loc.errout = child.out

\* C16 witness: a stop() called by the user has returned the output of a
\* process that wrote some, with the pipes closed and the directory emptied
C16_Witness ==
    /\ spc = "idle"
    /\ loc.why = "user"
    /\ loc.hadproc
    /\ loc.stdout = child.out
    /\ child.out > 0
    /\ ~child.files
    /\ LW.callpipe = "None"
    /\ LW.replypipe = "closed"

\* The startup thread is in the startup window: between the start of the
\* watcher and the return of its second open()
InStartupWindow ==
    spc \in {"open_call", "open_call_w", "open_reply", "open_reply_w"}

\* C19: when the worker process has exited inside the startup window without
\* holding both of its pipe ends open (none or only call_pipe), the opens of
\* the startup thread return and _start_subprocess ends by raising
\* AMSWorkerError, with the process reaped and the worker stopped.
C19_DeadChildEndsStartup ==
    (InStartupWindow /\ LW.engine = "dead")
        ~> ( /\ spc = "idle"
             /\ loc.why = "start_failed"
             /\ loc.err = "AMSWorkerError"
             /\ LW.proc = "None"
             /\ child.reaped )

\* C19 witness: the process exited after it had opened call_pipe only, the
\* startup thread is blocked in open(reply_pipe) and the watcher, having seen
\* the exit, is about to open the pipes itself
C19_Witness ==
    /\ spc = "open_reply_w"
    /\ fifo.reply.main = "waiting"
    /\ LW.engine = "dead"
    /\ LW.callpipe = "open"
    /\ wpc = "w_open_call"

\* C20: the watcher thread runs only between its start and the return of
\* join() in the finally block of _start_subprocess: it has returned whenever
\* the startup thread is anywhere else, in particular once the Hello frame is
\* on the pipe, during stop() and between calls, and the join() always
\* returns.
C20_WatcherOnlyDuringStartup ==
    /\ [](~(InStartupWindow \/ spc \in {"set_stop", "join"}) =>
            wpc \in {"none", "done"})
    /\ []((\E i \in 1 .. Len(LW.wire) : LW.wire[i].m = "Hello") =>
            wpc = "done" /\ stop_watcher)
    /\ (spc = "join") ~> (spc = "check")

\* C20 witness: the Hello frame has been written to a live process and the
\* watcher thread has returned
C20_Witness ==
    /\ spc = "hello_rd"
    /\ LW.wire = <<Frame("Hello", 0)>>
    /\ LW.engine = "up"
    /\ wpc = "done"
    /\ stop_watcher

\* The lifecycle state of worker w as the AMSWorker object knows it: an
\* except AMSWorkerError clause has caught a transport failure ("crashed"),
\* the clause is about to call _start_subprocess ("starting"), no process
\* handle ("stopped"), a process that answered Hello ("ready"), a process
\* that did not ("unready")
Lifecycle(ws, pcs, w) ==
    IF \E t \in Threads : tw[t] = w /\ pcs[t] = "recover" THEN "crashed"
    ELSE IF \E t \in Threads : tw[t] = w /\ pcs[t] = "restart" THEN "starting"
    ELSE IF ws[w].proc = "None" THEN "stopped"
    ELSE IF ws[w].hello THEN "ready"
    ELSE "unready"

LifecycleTransitions ==
    { <<"starting", "ready">>, <<"ready", "stopped">>,
      <<"ready", "crashed">>, <<"crashed", "starting">> }

\* C21: every change of a worker's lifecycle state is one of starting to
\* ready, ready to stopped, ready to crashed, crashed to starting; a start
\* is only ever pending inside the handler of an AMSWorkerError; and once
\* the caller has called stop() the worker has no process and no start of
\* one is pending.
C21_LifecycleTransitions ==
    [][ \A w \in Workers :
          /\ Lifecycle(workers, pc, w) # Lifecycle(workers', pc', w) =>
                <<Lifecycle(workers, pc, w), Lifecycle(workers', pc', w)>>
                    \in LifecycleTransitions
          /\ \A t \in Threads :
                (tw[t] = w /\ pc'[t] = "restart") => exc'[t].e = "AMSWorkerError"
          /\ workers'[w].stopped =>
                Lifecycle(workers', pc', w) = "stopped" ]_vars

\* C22: AMSWorkerPool.__init__ has started every thread before it joins the
\* first and has joined every thread before it looks at self.workers; it
\* raises PlamsError exactly when the constructor of some worker raised; and
\* when it returns every slot holds an AMSWorker whose process answered
\* Hello, the state AMSWorkerPool.evaluate starts from.
C22_PoolConstruction ==
    /\ mpc \in {"pjoin", "pcheck", "idle", "raised"} =>
          \A t \in Threads : pc[t] # "off"
    /\ mpc \in {"pcheck", "idle", "raised"} =>
          \A t \in Threads : pc[t] \in {"exit", "dead"}
    /\ mpc = "raised" => \E t \in Threads : pc[t] = "dead"
    /\ mpc = "idle" =>
          /\ \A t \in Threads : pc[t] = "exit"
          /\ \A w \in Workers :
                /\ slots[w] = "AMSWorker"
                /\ workers[w].proc # "None"
                /\ workers[w].hello
          /\ workers = [w \in Workers |-> ReadyWorker(FALSE)]

\* C22 witness: construction was aborted with the last worker ready and
\* another one failed, after both had been starting at the same time
C22_Witness ==
    /\ mpc = "raised"
    /\ pc[1] = "dead"
    /\ pc[NumWorkers] = "exit"
    /\ slots[NumWorkers] = "AMSWorker"
    /\ workers[NumWorkers].hello

\* C22 witness of the parallel start: two constructors are running
C22_ParallelStart ==
    /\ mpc = "pjoin"
    /\ \A t \in Threads : pc[t] = "start"

\* The frames before place k of the reply stream are whole messages without
\* a "return" key
OnlyMessagesBefore(k) ==
    \A j \in 1 .. (k - 1) :
        io.stream[j].kind = "msg" /\ io.stream[j].pre = 4
            /\ io.stream[j].have = io.stream[j].len

\* Place k of the reply stream holds the first terminal message
TerminalAt(k) ==
    /\ k \in 1 .. Len(io.stream)
    /\ OnlyMessagesBefore(k)
    /\ io.stream[k].kind = "return"

\* The call has written and flushed its frame and awaits a reply
Awaiting == AwaitsReply(call.method) /\ io.flushed

\* C23: an awaited _call that returns has read a terminal message of status
\* 0 and returns the messages before it in their order of arrival; one that
\* raises a protocol error has read a terminal message of nonzero status and
\* raises the error of that status; in both cases the next unread frame is
\* the one after the terminal message. Whenever the stream holds a terminal
\* message after whole messages only, the call ends in one of these two ways.
C23_ReadsUntilTerminal ==
    call.cpc = "done" =>
        /\ call.out = "results" =>
              \E k \in 1 .. Len(io.stream) :
                  /\ TerminalAt(k)
                  /\ io.stream[k].status = 0
                  /\ call.results = [j \in 1 .. (k - 1) |-> j]
                  /\ call.pos = k + 1
        /\ call.out \in {"AMSPipeError", "AMSPipeRuntimeError"} =>
              \E k \in 1 .. Len(io.stream) :
                  /\ TerminalAt(k)
                  /\ io.stream[k].status # 0
                  /\ call.out = from_message(io.stream[k].status)
                  /\ call.pos = k + 1
        /\ \A k \in 1 .. Len(io.stream) :
              (Awaiting /\ TerminalAt(k)) =>
                  call.out = IF io.stream[k].status = 0 THEN "results"
                             ELSE from_message(io.stream[k].status)

\* C23 witness: a call has returned two messages that came before the
\* terminal message
C23_Witness ==
    /\ call.cpc = "done"
    /\ call.out = "results"
    /\ call.results = <<1, 2>>
    /\ io.stream[3].kind = "return"

\* Place k of the reply stream holds a frame that is cut short by the end of
\* the stream, after whole messages only
CutShortAt(k) ==
    /\ k \in 1 .. Len(io.stream)
    /\ OnlyMessagesBefore(k)
    /\ \/ io.stream[k].pre < 4
       \/ io.stream[k].len >= 0 /\ io.stream[k].have < io.stream[k].len

\* Place k of the reply stream holds a whole frame that ubjson cannot decode,
\* after whole messages only
UndecodableAt(k) ==
    /\ k \in 1 .. Len(io.stream)
    /\ OnlyMessagesBefore(k)
    /\ io.stream[k].pre = 4
    /\ io.stream[k].len >= 0
    /\ io.stream[k].have = io.stream[k].len
    /\ io.stream[k].kind = "junk"

\* C24: an awaited _call that has ended returned its results only after a
\* terminal message of status 0, and never returned None; it raised
\* AMSWorkerError when call_pipe had no reader, when the reply stream ended
\* after whole messages only, when a frame was cut short by the end of the
\* stream, and when a frame could not be decoded; the error of a nonzero
\* status is never AMSWorkerError.
C24_NoCompletionWithoutTerminal ==
    /\ \A s \in CallStatuses \ {0} : from_message(s) # "AMSWorkerError"
    /\ (call.cpc = "done" /\ AwaitsReply(call.method)) =>
        /\ call.out # "None"
        /\ call.out = "results" =>
              \E k \in 1 .. Len(io.stream) :
                  TerminalAt(k) /\ io.stream[k].status = 0
        /\ (pack(call.plen) # <<>> /\ ~io.reader) => call.out = "AMSWorkerError"
        /\ (io.flushed /\ OnlyMessagesBefore(Len(io.stream) + 1)) =>
              call.out = "AMSWorkerError"
        /\ (io.flushed /\ \E k \in 1 .. Len(io.stream) :
                              CutShortAt(k) \/ UndecodableAt(k)) =>
              call.out = "AMSWorkerError"

\* C24 witness: an awaited call met the end of the stream inside the payload
\* of the frame that followed a whole message, and raised AMSWorkerError
C24_Witness ==
    /\ call.cpc = "done"
    /\ AwaitsReply(call.method)
    /\ call.out = "AMSWorkerError"
    /\ call.results = <<1>>
    /\ CutShortAt(2)
    /\ io.stream[2].pre = 4

\* The method is one whose name starts with "Set", or is "Exit"
SetOrExit == call.method \in {"SetSystem", "SetLattice", "Exit"}

\* C25: a _call of a Set method or of Exit ends right after its write (Exit
\* after the flush) having read nothing from reply_pipe, whatever is waiting
\* there; a call of any other method that returns has read up to a terminal
\* message of status 0; so the frames on reply_pipe are read by awaited calls
\* only.
C25_OnlyAwaitedCallsRead ==
    /\ SetOrExit =>
          /\ call.cpc \in {"pack", "write", "flush", "done"}
          /\ call.pos = 1
          /\ call.results = <<>>
          /\ call.cpc = "done" =>
                call.out \in {"None", "AMSWorkerError", "struct.error"}
    /\ (call.method # "Exit" /\ SetOrExit /\ call.cpc = "done") => ~io.flushed
    /\ (call.method = "Exit" /\ call.cpc = "done" /\ call.out = "None") =>
          io.flushed
    /\ (~SetOrExit /\ call.cpc = "done") =>
          /\ call.out # "None"
          /\ call.out = "results" =>
                /\ call.pos > 1
                /\ io.stream[call.pos - 1].kind = "return"

\* C25 witness: Exit has returned None with a whole terminal message waiting
\* unread on reply_pipe
C25_Witness ==
    /\ call.method = "Exit"
    /\ call.cpc = "done"
    /\ call.out = "None"
    /\ io.flushed
    /\ Len(io.stream) >= 1
    /\ TerminalAt(1)
    /\ call.pos = 1

\* The frame at place k of the reply stream is not there in full when the
\* stream ends: its prefix is cut, or not as many payload bytes follow as a
\* payload has (none or more) or as the prefix announces
IncompleteAt(k) ==
    /\ k \in 1 .. Len(io.stream)
    /\ OnlyMessagesBefore(k)
    /\ \/ io.stream[k].pre < 4
       \/ io.stream[k].len < 0
       \/ io.stream[k].have < io.stream[k].len

\* C26: the decoder only ever gets a payload that is there in full, with as
\* many bytes as its prefix announces; reading a frame moves on by that one
\* frame; and when the stream has ended and the frame the call has to read is
\* incomplete, whatever its prefix says, the call raises AMSWorkerError.
C26_TruncationIsAnError ==
    /\ call.cpc = "decode" =>
          /\ io.stream[call.pos].pre = 4
          /\ call.msglen = io.stream[call.pos].len
          /\ io.stream[call.pos].have = call.msglen
    /\ (call.cpc = "done" /\ Awaiting) =>
          /\ call.pos <= Len(call.results) + 2
          /\ \A k \in 1 .. Len(io.stream) :
                (io.eof /\ IncompleteAt(k)) => call.out = "AMSWorkerError"

\* C27: every frame handed to call_pipe carries the whole payload of the
\* call and a prefix equal to the payload's length, which fits the signed
\* length field; a payload that is longer than the field can say ends the
\* call with struct.error before anything is written.
C27_PrefixIsPayloadLength ==
    /\ Len(io.sent) <= 1
    /\ \A i \in 1 .. Len(io.sent) :
          /\ io.sent[i].size = call.plen
          /\ io.sent[i].prefix = io.sent[i].size
          /\ io.sent[i].size <= IntMax
    /\ call.plen > IntMax =>
          /\ io.sent = <<>>
          /\ ~io.flushed
          /\ call.cpc \in {"pack", "done"}
          /\ call.cpc = "done" => call.out = "struct.error"

\* C27 witness: a call whose payload is one byte longer than the length field
\* can say has ended with struct.error and nothing on the pipe
C27_Witness ==
    /\ call.cpc = "done"
    /\ call.plen = IntMax + 1
    /\ call.out = "struct.error"
    /\ io.sent = <<>>
    /\ io.reader

\* The mapping and the mappings nested in it have no key ending in "_dim_"
RECURSIVE NoReservedKey(_)
NoReservedKey(d) ==
    \A i \in 1 .. Len(d) :
        /\ ~EndsWithDim(d[i][1])
        /\ d[i][2].t = "map" => NoReservedKey(d[i][2].items)

\* Every array of x has its reversed dimensions at K + "_dim_" in the
\* flattened mapping y, and that key is not in the unflattened mapping z
RECURSIVE DescriptorsRight(_, _, _)
DescriptorsRight(x, y, z) ==
    \A i \in 1 .. Len(x) :
        LET K == x[i][1] IN
        /\ x[i][2].t = "array" =>
              /\ Has(y, KeyDim(K))
              /\ Get(y, KeyDim(K)) = Dims(Reverse(x[i][2].shape))
              /\ ~Has(z, KeyDim(K))
        /\ x[i][2].t = "map" =>
              /\ Has(y, K) /\ Get(y, K).t = "map"
              /\ Has(z, K) /\ Get(z, K).t = "map"
              /\ DescriptorsRight(x[i][2].items, Get(y, K).items,
                                  Get(z, K).items)

\* C28: for every nested mapping of scalars, strings, nested mappings and
\* arrays of rank at least 1, _unflatten_arrays(_flatten_arrays(x)) raises
\* nothing and equals x, the descriptor at K + "_dim_" is the array's
\* reversed dimensions and is not in the unflattened result
C28_RoundTrip ==
    fpc = "done" =>
        /\ fz.ok
        /\ DictEq(fz.d, fx)
        /\ DescriptorsRight(fx, fy, fz.d)

\* The round trip for the mappings without a key ending in "_dim_"
C28_RoundTripUnreserved ==
    (fpc = "done" /\ NoReservedKey(fx)) =>
        /\ fz.ok
        /\ DictEq(fz.d, fx)
        /\ DescriptorsRight(fx, fy, fz.d)

\* A round trip of a mapping with an empty array, an array of rank 2 and a
\* nested mapping
C28_UnreservedWitness ==
    /\ fpc = "done"
    /\ NoReservedKey(fx)
    /\ \E i \in 1 .. Len(fx) : fx[i][2].t = "array" /\ Prod(fx[i][2].shape) = 0
    /\ \E i \in 1 .. Len(fx) : fx[i][2].t = "map" /\ fx[i][2].items # <<>>

\* No dispatcher thread has taken a task of the batch from the queue, and
\* nothing has been written to a worker's callpipe since the pool was built
NothingDispatched ==
    /\ \A t \in Threads : pc[t] = "get" /\ op[t] = NoOp
    /\ \A w \in Workers : workers[w].wire = ReadyWorker(FALSE).wire
    /\ \A i \in 1 .. Len(results) : results[i] = NoRet

\* C29: when AMSWorkerPool.evaluate raises the JobError for an item that is
\* not a 3-tuple, at whatever position of the list, no task of the list has
\* been handed to a worker and no frame has been written
C29_MalformedRaisesBeforeIO ==
    [][(mpc = "put" /\ mpc' = "raised") => NothingDispatched]_vars

\* The same for a list whose first item is the malformed one
C29_MalformedFirst ==
    [][(mpc = "put" /\ mpc' = "raised" /\ mi = 1) => NothingDispatched]_vars

\* After the JobError no dispatcher thread is ever told to end: a thread
\* that is waiting in q.get() with the queue empty stays there
C29_DispatchersLeftWaiting ==
    (mpc = "raised" /\ q = <<>>) => \A t \in Threads : pc[t] # "exit"

\* AMSWorker.evaluate with unsupported settings: the NotImplementedError is
\* raised at once, no step of _solve is taken for the task
UnsupportedRaisedAtOnce ==
    \A t \in Threads :
        (op[t].kind = "evaluate" /\ ~SettingsSupported(op[t].task)) =>
            /\ pc[t] = "ret"
            /\ ret[t] = Raised("NotImplementedError", "None")

\* C30: a task with unsupported settings is raised as an error to the caller
\* before any frame is written for it, through AMSWorker.evaluate and through
\* AMSWorkerPool.evaluate, which therefore never returns a list for a batch
\* with such a task, let alone one whose slot for it is empty
C30_UnsupportedIsRaised ==
    /\ UnsupportedRaisedAtOnce
    /\ mpc = "done" => \A i \in 1 .. Len(items) : SettingsSupported(items[i].task)

\* The part of it about AMSWorker.evaluate alone
C30_DirectEvaluate == UnsupportedRaisedAtOnce

\* AMSWorkerPool.evaluate has returned a list whose slot for a task with
\* unsupported settings is None
C30_SilentlyMissing ==
    /\ mpc = "done"
    /\ \E i \in 1 .. Len(items) :
          ~SettingsSupported(items[i].task) /\ results[i] = NoRet

\* AMSWorker.evaluate has raised the NotImplementedError to its caller
C30_DirectWitness ==
    \E t \in Threads :
        /\ op[t].kind = "evaluate" /\ ~SettingsSupported(op[t].task)
        /\ pc[t] = "ret"
        /\ mpc = "off"

\* C38: whenever AMSWorkerPool.evaluate has ended, by returning its results
\* or by raising, every dispatcher thread it started has ended too: none is
\* running a task or waiting in q.get()
C38_DispatchersEndWithEvaluate ==
    mpc \in {"done", "raised"} => \A t \in Threads : pc[t] \in {"exit", "dead"}

\* The same for the calls that return
C38_ReturnedOnly ==
    mpc = "done" => \A t \in Threads : pc[t] \in {"exit", "dead"}

\* The tasks of the batch that evaluate has put on the queue so far
Queued ==
    IF mpc \in {"put", "raised"} THEN 1 .. (mi - 1)
    ELSE IF mpc \in {"sentinel", "join", "done"} THEN 1 .. Len(items)
    ELSE {}

\* In how many places task i is: waiting in the queue, taken by a dispatcher
\* thread that is evaluating it, or evaluated with its result in its slot
Places(i) ==
    Cardinality({ k \in 1 .. Len(q) : q[k].slot = i })
    + Cardinality({ t \in Threads : op[t].slot = i })
    + (IF results[i] # NoRet THEN 1 ELSE 0)

\* C32: every task put on the queue is in exactly one place at any moment,
\* waiting, with one dispatcher thread, or evaluated with its result stored:
\* none is lost and none is taken twice, and when evaluate returns every task
\* has its result
C32_EachTaskExactlyOnce ==
    /\ \A i \in Queued : Places(i) = 1
    /\ mpc = "done" => \A i \in 1 .. Len(items) : results[i].kind = "result"

\* No task is ever in two places
C32_NoTaskTwice ==
    \A i \in Queued : Places(i) <= 1

\* The same as C32 for the batches in which no call of evaluate has raised
C32_UnlessEvaluateRaised ==
    (\A t \in Threads : pc[t] # "dead" /\ ret[t].kind # "raise") =>
        /\ \A i \in Queued : Places(i) = 1
        /\ mpc = "done" => \A i \in 1 .. Len(items) : results[i].kind = "result"

\* The dispatcher threads that have left their loop through the sentinel
Exited == { t \in Threads : pc[t] = "exit" }

\* The sentinels evaluate has put on the queue so far
SentinelsPut ==
    IF mpc = "sentinel" THEN mi - 1
    ELSE IF mpc \in {"join", "done"} THEN NumWorkers
    ELSE 0

\* The sentinels waiting in the queue
SentinelsQueued == Cardinality({ k \in 1 .. Len(q) : q[k] = Sentinel })

\* evaluate is running: between creating its threads and its return or raise
Evaluating == mpc \in {"put", "sentinel", "join"}

\* The order of C33: the sentinels are put after all tasks, one per dispatcher
\* thread; each thread that exits has consumed exactly one of them; no thread
\* exits while a task is waiting in the queue; evaluate returns only after
\* every thread has ended
C33_SentinelProtocol ==
    /\ \A k \in 1 .. Len(q) :
          q[k] = Sentinel => \A j \in k .. Len(q) : q[j] = Sentinel
    /\ mpc = "put" => SentinelsQueued = 0
    /\ SentinelsPut <= NumWorkers
    /\ mpc \in {"put", "sentinel", "join", "done"} =>
          Cardinality(Exited) + SentinelsQueued = SentinelsPut
    /\ Exited # {} => \A k \in 1 .. Len(q) : q[k] = Sentinel
    /\ mpc = "done" => \A t \in Threads : pc[t] \in {"exit", "dead"}

\* The termination of C33: a running evaluate ends, whenever every worker call
\* comes back and every thread gets to run
C33_EvaluateTerminates ==
    Evaluating ~> (mpc \in {"done", "raised"})

\* evaluate has returned after both dispatcher threads took their sentinel,
\* with a batch of at least two tasks
C33_Witness ==
    /\ mpc = "done"
    /\ Len(items) >= 2
    /\ \A t \in Threads : pc[t] = "exit"
    /\ SentinelsPut = NumWorkers

\* C33: evaluate terminates whenever every worker call returns, and it does
\* so in this order: sentinels after all tasks, one per dispatcher thread,
\* each thread exiting after exactly one of them and never before a waiting
\* task, the return after every thread has ended
C33_TerminatesInOrder ==
    /\ []C33_SentinelProtocol
    /\ C33_EvaluateTerminates

\* The frame of the primary call, in the state after SolvePrimary
PrimaryFrame == sol.frames[Len(sol.frames)]

\* The step of _solve that sends the primary call
PrimarySent == sol.pc = "primary" /\ sol'.pc = "idle"

\* C31: the primary call carries prevTitle only when the restart cache is
\* enabled and the name of prev_results is retained at that moment, in which
\* case the engine still has those results; it does carry it then; with the
\* cache disabled or the name pending deletion, deleted or lost in a restart
\* no prevTitle is sent; keepResults is requested exactly with the cache
\* enabled
C31_WarmStartOnlyFromLiveEntries ==
    [][PrimarySent =>
        /\ PrimaryFrame'.keepResults = sw.use_restart_cache
        /\ PrimaryFrame'.prevTitle # 0 =>
              /\ sw.use_restart_cache
              /\ PrimaryFrame'.prevTitle = sol.prev
              /\ sol.prev \in sw.restart_cache
              /\ sol.prev \notin sw.restart_cache_deleted
              /\ sol.prev \in sw.server
        /\ (sw.use_restart_cache /\ sol.prev \in sw.restart_cache) =>
              PrimaryFrame'.prevTitle = sol.prev
        /\ ~sw.use_restart_cache => PrimaryFrame'.prevTitle = 0
    ]_vars

\* A primary call has been sent with a prevTitle
C31_Witness ==
    /\ sol.pc = "idle"
    /\ sol.frames # <<>>
    /\ PrimaryFrame.prevTitle # 0
    /\ senv.n = MaxSolves

\* prev_results was passed and no prevTitle was sent, the cache being enabled
C31_WitnessDropped ==
    /\ sol.pc = "idle"
    /\ sol.frames # <<>>
    /\ sol.prev # 0
    /\ PrimaryFrame.prevTitle = 0
    /\ sw.use_restart_cache

\* C34: when the primary call of an evaluate has been sent, the frames of
\* that evaluate are one SetSystem, one SetLattice and one Solve or Optimize,
\* in this order; the SetLattice has the cell of the molecule, or empty
\* arguments when it has no lattice, so that the engine computes with the
\* lattice of this molecule and not with one set by an earlier evaluate
C34_SystemLatticePrimary ==
    [][PrimarySent =>
        /\ Len(sol'.frames) = 3
        /\ sol'.frames[1].m = "SetSystem"
        /\ sol'.frames[2].m = "SetLattice"
        /\ sol'.frames[3].m \in {"Solve", "Optimize"}
        /\ sol'.frames[2].vectors = (IF sol.lattice THEN "cell" ELSE "empty")
        /\ senv.lattice = (IF sol.lattice THEN "cell" ELSE "empty")
    ]_vars

\* A later evaluate on the same worker, for a molecule without lattice, has
\* sent its primary call
C34_Witness ==
    /\ sol.pc = "idle"
    /\ sol.frames # <<>>
    /\ ~sol.lattice
    /\ senv.lattice = "empty"
    /\ senv.n = MaxSolves

NotDelete(f) == f.m # "DeleteResults"

\* The order of C34 with the transport failures of Spec: whenever an
\* evaluate has written its primary call, the frames it wrote after the
\* DeleteResults of the pruning are SetSystem, SetLattice and the primary call
C34_WireOrder ==
    \A t \in Threads :
        (pc[t] = "solve_rd" /\ op[t].kind = "evaluate") =>
            SelectSeq(W(t).wire, NotDelete)
                = << Frame("SetSystem", 0), Frame("SetLattice", 0),
                     Frame(PrimaryMethod(op[t].task), op[t].name) >>

\* C35: for every task the validation accepts, whatever its spelling, the
\* primary call is Optimize exactly when the task is a geometry optimization
\* and Solve exactly when it is a single point, and the arguments of the
\* geometry optimization go with Optimize only
C35_PrimaryCallFollowsTask ==
    [][PrimarySent =>
        /\ PrimaryFrame'.m = "Optimize" <=> Lower(sol.task) = "geometryoptimization"
        /\ PrimaryFrame'.m = "Solve" <=> Lower(sol.task) = "singlepoint"
        /\ PrimaryFrame'.geo => PrimaryFrame'.m = "Optimize"
    ]_vars

\* The same for the tasks spelled in lower case
C35_LowerCaseTasks ==
    [][(PrimarySent /\ Lower(sol.task) = sol.task) =>
        /\ PrimaryFrame'.m = "Optimize" <=> sol.task = "geometryoptimization"
        /\ PrimaryFrame'.m = "Solve" <=> sol.task = "singlepoint"
        /\ PrimaryFrame'.geo => PrimaryFrame'.m = "Optimize"
    ]_vars

\* Geometry optimizations spelled in lower case have been sent as Optimize,
\* with their arguments
C35_LowerCaseWitness ==
    /\ sol.pc = "idle"
    /\ sol.frames # <<>>
    /\ sol.task = "geometryoptimization"
    /\ PrimaryFrame.m = "Optimize"
    /\ PrimaryFrame.geo

\* The result r is held and its worker has not been stopped or restarted
\* since the evaluate that returned it
HeldAndCurrent(r) == r \in held /\ r.epoch = workers[r.w].epoch

\* C36: as long as the result of a successful evaluate is held and the worker
\* has not been stopped or restarted since, the entry that evaluate created
\* stays retained and is not pending deletion, whatever other results are
\* released, an older one of the same name included
C36_OnlyOwnReleaseMovesEntry ==
    \A r \in held :
        HeldAndCurrent(r) =>
            /\ r.name \in workers[r.w].restart_cache
            /\ r.name \notin workers[r.w].restart_cache_deleted

\* What does move the entry of a held result: the release of another result
\* of the same name on the same worker
C36_MovedByNamesake ==
    [][\A r \in held' :
          (/\ r \in held
           /\ r.epoch = workers'[r.w].epoch
           /\ r.name \in workers[r.w].restart_cache
           /\ r.name \notin workers'[r.w].restart_cache)
          => \E s \in held \ held' : s.w = r.w /\ s.name = r.name /\ s # r
    ]_vars

\* C37: when the constructor of AMSWorkerPool raises because a worker failed
\* to start, no engine process started for the pool is running
C37_NoProcessLeftAfterFailedInit ==
    mpc = "raised" => \A w \in Workers : workers[w].engine # "up"

\* The part of it about the workers that did start: each has been stopped
C37_StartedWorkersAreStopped ==
    mpc = "raised" =>
        \A w \in Workers : slots[w] = "AMSWorker" => workers[w].engine # "up"

====
